---- MODULE Spec2Model ----
(***************************************************************************)
(* A model of xcube's ServiceContext (src/xcube/webapi/context.py): the    *)
(* dataset cache, the cached list of dataset configurations, the config    *)
(* setter and the re-entrant lock, run by concurrent request threads.      *)
(* One action models one atomic step of one thread: every read or write of *)
(* a shared attribute of the context is a step of its own, except that the *)
(* release of the lock at the end of a `with self._lock:` block is taken   *)
(* together with the last statement of the block.                          *)
(***************************************************************************)
EXTENDS Integers, Sequences, FiniteSets, TLC

\* ---------------------------------------------------------------- bounds

\* MultiLevelDataset objects opened in one run
MaxObj == 2
\* calls of the config setter in one run
MaxSets == 1

\* request threads
Threads == {"t1", "t2"}
NoThread == "none"

\* ------------------------------------------------- configurations (inputs)

\* A configuration is named by a number; configuration 0 is the empty dict
\* that ServiceContext.__init__ installs when no config is given.
ConfigIds == {0, 1, 2}
\* dataset identifiers a request may ask for; 3 is the Identifier of no
\* dataset configuration of any configuration
DsIds == {1, 2, 3}
\* the datasets whose place groups are requested
PlaceGroupIds == {1}

\* a dataset configuration: Identifier, FileSystem, and whether it has an
\* 'Augmentation' entry
DC(id, fs, aug) == [Identifier |-> id, FileSystem |-> fs, Augmentation |-> aug]

\* config.get('Datasets', []) of each configuration
Datasets(c) ==
    CASE c = 1 -> << DC(1, "memory", FALSE), DC(2, "memory", TRUE) >>
      [] c = 2 -> << DC(2, "local", FALSE), DC(1, "memory", FALSE) >>
      [] OTHER -> << >>

\* bool(config): an empty dict is falsy
Truthy(c) == c # 0

\* the value None of _dataset_configs
NoList == 0 - 1

\* the identifier under which the augmentation registers its input dataset
\* (set_ml_dataset): never the Identifier of a dataset configuration
HiddenId(o) == 10 + o

\* ------------------------------------------------------------------ state

VARIABLES
    config,            \* _config: the installed configuration
    dataset_configs,   \* _dataset_configs: NoList, or the configuration the list was computed from
    dataset_cache,     \* _dataset_cache: ds_id -> MultiLevelDataset object
    image_cache,       \* _image_cache: objects an image was cached for
    tile_cache,        \* _tile_cache: objects a tile was cached for
    place_group_cache, \* _place_group_cache: <<ds_id, configuration>> of loaded place groups
    lock,              \* _lock: threading.RLock, owner and recursion count
    mlds,              \* every MultiLevelDataset object opened so far
    pc, op, arg,       \* per thread: position, running method, its argument
    loc,               \* per thread: locals of the running method
    hist,              \* per thread: what was true when the running call started
    ret,               \* the call that returned in the last step, if one did
    returned,          \* ds_id -> object first returned by a lookup since the last setter call
    nsets,             \* config setter calls started so far
    call,              \* a call of a function without side effects: its name, arguments, result
    lru_cache,         \* a Cache object (the tile cache) and the uses made of its keys
    lazy_mld,          \* a MultiLevelDataset: its levels and the requests for them
    data_store_pool,   \* _data_store_pool
    datasets_listing,  \* the 'Datasets' list of a configuration and the calls that compute the list
    wcs_handler        \* a GetCoverage request under way and the temporary files

vars == << config, dataset_configs, dataset_cache, image_cache, tile_cache,
           place_group_cache, lock, mlds, pc, op, arg, loc, hist, ret,
           returned, nsets, call, lru_cache, lazy_mld, data_store_pool,
           datasets_listing, wcs_handler >>

\* the state of the ServiceContext and of the threads that use it
context == << config, dataset_configs, dataset_cache, image_cache, tile_cache,
              place_group_cache, lock, mlds, pc, op, arg, loc, hist, ret,
              returned, nsets >>

\* the variables the threads of the ServiceContext never touch
aux == << call, lru_cache, lazy_mld, data_store_pool,
           datasets_listing, wcs_handler >>

shared == << config, dataset_configs, dataset_cache, image_cache, tile_cache,
             place_group_cache, lock, mlds >>

NoLoc == [cfg |-> NoList, dc |-> 0, obj |-> 0]
\* the caches and the configuration as a reader sees them
Snapshot == [config |-> config, list |-> dataset_configs, cache |-> dataset_cache,
             image |-> image_cache, tile |-> tile_cache, places |-> place_group_cache]
NoSnap == [config |-> NoList, list |-> NoList, cache |-> << >>,
           image |-> {}, tile |-> {}, places |-> {}]

NoHist == [dirty |-> FALSE, known |-> FALSE, old |-> NoSnap]
NoRet == [t |-> NoThread, op |-> "none", id |-> 0, kind |-> "none", obj |-> 0,
          cfg |-> NoList, quiet |-> FALSE, known |-> FALSE, old |-> NoSnap]

\* methods that resolve ds_id through _get_dataset_entry
LookupOps == {"get_ml_dataset"}

SetterPcs == {"set_lock", "set_close", "set_clear_ds", "set_clear_img",
              "set_clear_tile", "set_clear_pg", "set_reset", "set_assign"}

\* some thread is inside the config setter
SetterActive == \E u \in Threads : pc[u] \in SetterPcs

\* recorded when a call starts: whether a setter call is running, and
\* whether a lookup of the same ds_id has already returned
StartHist(id) ==
    [dirty |-> SetterActive, known |-> id \in DOMAIN returned, old |-> NoSnap]

\* at a return: no setter call ran at any time during the call
Quiet(t) == ~hist[t].dirty

\* ------------------------------------------------------------------- lock

\* (for C25) threading.Lock: free
CanAcquireLock(t) == lock.owner = NoThread

\* threading.RLock: free, or already owned by the caller
CanAcquire(t) == lock.owner \in {NoThread, t}
Acquired(t) == [owner |-> t, count |-> lock.count + 1]
Released(t) ==
    IF lock.count <= 1 THEN [owner |-> NoThread, count |-> 0]
    ELSE [owner |-> lock.owner, count |-> lock.count - 1]

\* --------------------------------------------------------------- helpers

\* next((dsd for dsd in dataset_configs if dsd['Identifier'] == ds_name), None):
\* the position of the first match in the list, 0 for None
find_dataset_config(c, id) ==
    LET hits == {i \in 1..Len(Datasets(c)) : Datasets(c)[i].Identifier = id}
    IN IF hits = {} THEN 0 ELSE CHOOSE i \in hits : \A j \in hits : i <= j

\* self._dataset_cache[ml_dataset.ds_id] = ml_dataset, dataset_config
set_dataset_entry(cache, ds_id, o) ==
    [k \in (DOMAIN cache) \cup {ds_id} |-> IF k = ds_id THEN o ELSE cache[k]]

\* the end of a call: its outcome, and the thread is idle again
Finish(t, kind, o, c) ==
    /\ ret' = [t |-> t, op |-> op[t], id |-> arg[t], kind |-> kind, obj |-> o,
               cfg |-> c, quiet |-> Quiet(t), known |-> hist[t].known,
               old |-> hist[t].old]
    /\ pc' = [pc EXCEPT ![t] = "idle"]
    /\ op' = [op EXCEPT ![t] = "none"]
    /\ arg' = [arg EXCEPT ![t] = 0]
    /\ loc' = [loc EXCEPT ![t] = NoLoc]
    /\ hist' = [hist EXCEPT ![t] = NoHist]

\* a step that ends no call
Step(t, to) ==
    /\ pc' = [pc EXCEPT ![t] = to]
    /\ ret' = NoRet

\* the value of a variable that a specification does not use
Unused == "unused"

\* no call of a function is under way
NoCall == [fn |-> "none", args |-> << >>, out |-> << >>, done |-> FALSE]

Init ==
    /\ config \in {0, 1}
    /\ dataset_configs = NoList
    /\ dataset_cache = << >>
    /\ image_cache = {}
    /\ tile_cache = {}
    /\ place_group_cache = {}
    /\ lock = [owner |-> NoThread, count |-> 0]
    /\ mlds = << >>
    /\ pc = [t \in Threads |-> "idle"]
    /\ op = [t \in Threads |-> "none"]
    /\ arg = [t \in Threads |-> 0]
    /\ loc = [t \in Threads |-> NoLoc]
    /\ hist = [t \in Threads |-> NoHist]
    /\ ret = NoRet
    /\ returned = << >>
    /\ nsets = 0
    /\ call = NoCall
    /\ lru_cache = Unused
    /\ lazy_mld = Unused
    /\ data_store_pool = Unused
    /\ datasets_listing = Unused
    /\ wcs_handler = Unused

\* ------------------------------------------------- get_dataset_configs

\* the start of a call of thread t: method o with argument a
Call(t, o, a) ==
    /\ pc[t] = "idle"
    /\ op' = [op EXCEPT ![t] = o]
    /\ arg' = [arg EXCEPT ![t] = a]
    /\ hist' = [hist EXCEPT ![t] = StartHist(a)]

\* get_dataset_config(ds_id), called by a request: line 270,
\* `if self._dataset_configs is None`
get_dataset_config(t) ==
    /\ \E id \in DsIds : Call(t, "get_dataset_config", id)
    /\ Step(t, IF dataset_configs = NoList THEN "cfgs_lock" ELSE "cfgs_return")
    /\ UNCHANGED << shared, loc, returned, nsets, aux >>

\* the same check, reached from _create_dataset_entry (line 617)
get_dataset_configs_check(t) ==
    /\ pc[t] = "cfgs_check"
    /\ Step(t, IF dataset_configs = NoList THEN "cfgs_lock" ELSE "cfgs_return")
    /\ UNCHANGED << shared, op, arg, loc, hist, returned, nsets, aux >>

\* line 271: with self._lock
get_dataset_configs_lock(t) ==
    /\ pc[t] = "cfgs_lock"
    /\ CanAcquire(t)
    /\ lock' = Acquired(t)
    /\ Step(t, "cfgs_compute")
    /\ UNCHANGED << config, dataset_configs, dataset_cache, image_cache, tile_cache,
                    place_group_cache, mlds, op, arg, loc, hist, returned, nsets, aux >>

\* lines 272-278: the list is computed from the configuration installed now
\* and stored; the with block ends
get_dataset_configs_compute(t) ==
    /\ pc[t] = "cfgs_compute"
    /\ dataset_configs' = config
    /\ lock' = Released(t)
    /\ Step(t, "cfgs_return")
    /\ UNCHANGED << config, dataset_cache, image_cache, tile_cache,
                    place_group_cache, mlds, op, arg, loc, hist, returned, nsets, aux >>

\* line 279 `return self._dataset_configs` (a second read of the attribute),
\* then find_dataset_config and the raise of lines 520-525. Iterating None
\* is a TypeError. Inside _get_dataset_entry an exception leaves the with
\* block of line 608.
get_dataset_configs_return(t) ==
    /\ pc[t] = "cfgs_return"
    /\ LET list == dataset_configs
           dc == find_dataset_config(list, arg[t])
           kind == IF list = NoList THEN "TypeError"
                   ELSE IF dc = 0 THEN "NotFound" ELSE "ok"
       IN IF kind = "ok" /\ op[t] # "get_dataset_config"
          THEN /\ loc' = [loc EXCEPT ![t] = [cfg |-> list, dc |-> dc, obj |-> 0]]
               /\ Step(t, IF op[t] = "get_dataset_place_groups" THEN "pg_scan" ELSE "open")
               /\ UNCHANGED << lock, op, arg, hist >>
          ELSE /\ Finish(t, kind, 0, list)
               /\ lock' = IF op[t] \in LookupOps THEN Released(t) ELSE lock
    /\ UNCHANGED << config, dataset_configs, dataset_cache, image_cache, tile_cache,
                    place_group_cache, mlds, returned, nsets, aux >>

\* ---------------------------------------------------- _get_dataset_entry

\* get_ml_dataset(ds_id), line 607: `if ds_id not in self._dataset_cache`.
\* get_dataset (line 240) and get_tile_grid (line 542) start with the same
\* call of _get_dataset_entry and only read the object it returns.
get_dataset_entry(t) ==
    /\ \E o \in LookupOps, id \in DsIds \cup DOMAIN dataset_cache :
          /\ Call(t, o, id)
          /\ Step(t, IF id \in DOMAIN dataset_cache THEN "entry_return" ELSE "entry_lock")
    /\ UNCHANGED << shared, loc, returned, nsets, aux >>

\* (for C7) line 608 without the lock: the construction is entered at once
get_dataset_entry_unlocked(t) ==
    /\ pc[t] = "entry_lock"
    /\ Step(t, "cfgs_check")
    /\ UNCHANGED << shared, op, arg, loc, hist, returned, nsets, aux >>

\* line 608: with self._lock
get_dataset_entry_lock(t) ==
    /\ pc[t] = "entry_lock"
    /\ CanAcquire(t)
    /\ lock' = Acquired(t)
    /\ Step(t, "cfgs_check")
    /\ UNCHANGED << config, dataset_configs, dataset_cache, image_cache, tile_cache,
                    place_group_cache, mlds, op, arg, loc, hist, returned, nsets, aux >>

\* (for C12) _open_ml_dataset with the opener looked up for any FileSystem,
\* as in the lines commented out at 652-658: no FileSystem is refused
open_ml_dataset_any_file_system(t) ==
    /\ pc[t] = "open"
    /\ LET dc == Datasets(loc[t].cfg)[loc[t].dc]
       IN \/ /\ Finish(t, "ConfigError", 0, loc[t].cfg)
             /\ lock' = Released(t)
             /\ UNCHANGED mlds
          \/ /\ Len(mlds) < MaxObj
             /\ mlds' = Append(mlds, [ds_id |-> dc.Identifier, cfg |-> loc[t].cfg,
                                      closed |-> FALSE, built |-> FALSE])
             /\ loc' = [loc EXCEPT ![t].obj = Len(mlds) + 1]
             /\ Step(t, IF dc.Augmentation THEN "augment" ELSE "entry_set")
             /\ UNCHANGED << lock, op, arg, hist >>
    /\ UNCHANGED << config, dataset_configs, dataset_cache, image_cache, tile_cache,
                    place_group_cache, returned, nsets, aux >>

\* _open_ml_dataset, lines 621-666: a configuration without StoreInstanceId
\* whose FileSystem is not 'memory' is a ServiceConfigError; otherwise the
\* opener runs and either raises (exception_type=ServiceConfigError) or
\* yields a new MultiLevelDataset with ds_id = Identifier
open_ml_dataset(t) ==
    /\ pc[t] = "open"
    /\ LET dc == Datasets(loc[t].cfg)[loc[t].dc]
       IN \/ /\ dc.FileSystem # "memory"
             /\ Finish(t, "ConfigError", 0, loc[t].cfg)
             /\ lock' = Released(t)
             /\ UNCHANGED mlds
          \/ /\ dc.FileSystem = "memory"
             /\ Finish(t, "ConfigError", 0, loc[t].cfg)
             /\ lock' = Released(t)
             /\ UNCHANGED mlds
          \/ /\ dc.FileSystem = "memory"
             /\ Len(mlds) < MaxObj
             /\ mlds' = Append(mlds, [ds_id |-> dc.Identifier, cfg |-> loc[t].cfg,
                                      closed |-> FALSE, built |-> FALSE])
             /\ loc' = [loc EXCEPT ![t].obj = Len(mlds) + 1]
             /\ Step(t, IF dc.Augmentation THEN "augment" ELSE "entry_set")
             /\ UNCHANGED << lock, op, arg, hist >>
    /\ UNCHANGED << config, dataset_configs, dataset_cache, image_cache, tile_cache,
                    place_group_cache, returned, nsets, aux >>

\* set_ml_dataset(ml_dataset), lines 236-237: the entry is stored under the
\* dataset's own ds_id; the method itself takes no lock
set_ml_dataset(ds_id, o) ==
    dataset_cache' = set_dataset_entry(dataset_cache, ds_id, o)

\* lines 667-683: augment_ml_dataset is handed get_ml_dataset and
\* set_ml_dataset; it either raises (exception_type=ServiceConfigError) or
\* registers its input dataset under a hidden identifier and returns
augment_ml_dataset(t) ==
    /\ pc[t] = "augment"
    /\ \/ /\ Finish(t, "ConfigError", 0, loc[t].cfg)
          /\ lock' = Released(t)
          /\ UNCHANGED << mlds, dataset_cache >>
       \/ /\ Len(mlds) < MaxObj
          /\ LET h == Len(mlds) + 1
             IN /\ mlds' = Append(mlds, [ds_id |-> HiddenId(h), cfg |-> loc[t].cfg,
                                         closed |-> FALSE, built |-> TRUE])
                /\ set_ml_dataset(HiddenId(h), h)
          /\ Step(t, "entry_set")
          /\ UNCHANGED << lock, op, arg, loc, hist >>
    /\ UNCHANGED << config, dataset_configs, image_cache, tile_cache,
                    place_group_cache, returned, nsets, aux >>

\* line 609: self._set_dataset_entry(...), lines 612-614; the with block ends
get_dataset_entry_set(t) ==
    /\ pc[t] = "entry_set"
    /\ dataset_cache' = set_dataset_entry(dataset_cache, mlds[loc[t].obj].ds_id, loc[t].obj)
    /\ mlds' = [mlds EXCEPT ![loc[t].obj].built = TRUE]
    /\ lock' = Released(t)
    /\ Step(t, "entry_return")
    /\ UNCHANGED << config, dataset_configs, image_cache, tile_cache,
                    place_group_cache, op, arg, loc, hist, returned, nsets, aux >>

\* line 610: return self._dataset_cache[ds_id]; a missing key is a KeyError
get_dataset_entry_return(t) ==
    /\ pc[t] = "entry_return"
    /\ IF arg[t] \in DOMAIN dataset_cache
       THEN LET o == dataset_cache[arg[t]]
            IN /\ returned' = IF SetterActive \/ arg[t] \in DOMAIN returned
                              THEN returned
                              ELSE [k \in (DOMAIN returned) \cup {arg[t]} |->
                                       IF k = arg[t] THEN o ELSE returned[k]]
               /\ Finish(t, "ok", o, mlds[o].cfg)
       ELSE /\ Finish(t, "KeyError", 0, NoList)
            /\ UNCHANGED returned
    /\ UNCHANGED << shared, nsets, aux >>

\* ------------------------------------------------------- tiles and places

\* a tile request stores the rendered image and tile of a cached dataset in
\* the image cache and the tile cache
tile_put(t) ==
    /\ pc[t] = "idle"
    /\ \E k \in DOMAIN dataset_cache :
          /\ image_cache' = image_cache \cup {dataset_cache[k]}
          /\ tile_cache' = tile_cache \cup {dataset_cache[k]}
    /\ ret' = NoRet
    /\ UNCHANGED << config, dataset_configs, dataset_cache, place_group_cache,
                    lock, mlds, pc, op, arg, loc, hist, returned, nsets, aux >>

\* get_dataset_place_groups(ds_id), line 695: get_dataset_config(ds_id)
get_dataset_place_groups(t) ==
    /\ \E id \in PlaceGroupIds : Call(t, "get_dataset_place_groups", id)
    /\ Step(t, IF dataset_configs = NoList THEN "cfgs_lock" ELSE "cfgs_return")
    /\ UNCHANGED << shared, loc, returned, nsets, aux >>

\* lines 697-705: place groups cached for the dataset are returned
place_groups_scan(t) ==
    /\ pc[t] = "pg_scan"
    /\ LET hit == {e \in place_group_cache : e[1] = arg[t]}
       IN IF hit # {}
          THEN Finish(t, "ok", 0, (CHOOSE e \in hit : TRUE)[2])
          ELSE /\ Step(t, "pg_put")
               /\ UNCHANGED << op, arg, loc, hist >>
    /\ UNCHANGED << shared, returned, nsets, aux >>

\* lines 707-712: they are loaded from the dataset configuration and cached
place_groups_put(t) ==
    /\ pc[t] = "pg_put"
    /\ place_group_cache' = place_group_cache \cup {<< arg[t], loc[t].cfg >>}
    /\ Finish(t, "ok", 0, loc[t].cfg)
    /\ UNCHANGED << config, dataset_configs, dataset_cache, image_cache, tile_cache,
                    lock, mlds, returned, nsets, aux >>

\* ---------------------------------------------------------- config setter

\* ctx.config = c, line 129: `if self._config`
config_setter(t) ==
    /\ pc[t] = "idle"
    /\ nsets < MaxSets
    /\ \E c \in ConfigIds \ {config} :
          arg' = [arg EXCEPT ![t] = c]
    /\ op' = [op EXCEPT ![t] = "config"]
    /\ hist' = [u \in Threads |->
                  IF u = t THEN [NoHist EXCEPT !.old = Snapshot]
                  ELSE IF pc[u] = "idle" THEN NoHist
                  ELSE [hist[u] EXCEPT !.dirty = TRUE]]
    /\ nsets' = nsets + 1
    /\ returned' = << >>
    /\ Step(t, IF Truthy(config) THEN "set_lock" ELSE "set_assign")
    /\ UNCHANGED << shared, loc, aux >>

\* line 130: with self._lock
config_setter_lock(t) ==
    /\ pc[t] = "set_lock"
    /\ CanAcquire(t)
    /\ lock' = Acquired(t)
    /\ hist' = [hist EXCEPT ![t].old = Snapshot]
    /\ Step(t, "set_close")
    /\ UNCHANGED << config, dataset_configs, dataset_cache, image_cache, tile_cache,
                    place_group_cache, mlds, op, arg, loc, returned, nsets, aux >>

\* lines 132-137: close() is called on every cached dataset; an exception
\* of close() is swallowed
config_setter_close(t) ==
    /\ pc[t] = "set_close"
    /\ mlds' = [o \in DOMAIN mlds |->
                  IF \E k \in DOMAIN dataset_cache : dataset_cache[k] = o
                  THEN [mlds[o] EXCEPT !.closed = TRUE] ELSE mlds[o]]
    /\ Step(t, "set_clear_ds")
    /\ UNCHANGED << config, dataset_configs, dataset_cache, image_cache, tile_cache,
                    place_group_cache, lock, op, arg, loc, hist, returned, nsets, aux >>

\* lines 139-140
config_setter_clear_dataset_cache(t) ==
    /\ pc[t] = "set_clear_ds"
    /\ dataset_cache' = << >>
    /\ Step(t, "set_clear_img")
    /\ UNCHANGED << config, dataset_configs, image_cache, tile_cache,
                    place_group_cache, lock, mlds, op, arg, loc, hist, returned, nsets, aux >>

\* lines 141-142
config_setter_clear_image_cache(t) ==
    /\ pc[t] = "set_clear_img"
    /\ image_cache' = {}
    /\ Step(t, "set_clear_tile")
    /\ UNCHANGED << config, dataset_configs, dataset_cache, tile_cache,
                    place_group_cache, lock, mlds, op, arg, loc, hist, returned, nsets, aux >>

\* lines 143-144
config_setter_clear_tile_cache(t) ==
    /\ pc[t] = "set_clear_tile"
    /\ tile_cache' = {}
    /\ Step(t, "set_clear_pg")
    /\ UNCHANGED << config, dataset_configs, dataset_cache, image_cache,
                    place_group_cache, lock, mlds, op, arg, loc, hist, returned, nsets, aux >>

\* lines 145-146
config_setter_clear_place_group_cache(t) ==
    /\ pc[t] = "set_clear_pg"
    /\ place_group_cache' = {}
    /\ Step(t, "set_reset")
    /\ UNCHANGED << config, dataset_configs, dataset_cache, image_cache, tile_cache,
                    lock, mlds, op, arg, loc, hist, returned, nsets, aux >>

\* lines 147-149: self._dataset_configs = None; the with block ends
config_setter_reset(t) ==
    /\ pc[t] = "set_reset"
    /\ dataset_configs' = NoList
    /\ lock' = Released(t)
    /\ Step(t, "set_assign")
    /\ UNCHANGED << config, dataset_cache, image_cache, tile_cache,
                    place_group_cache, mlds, op, arg, loc, hist, returned, nsets, aux >>

\* line 150: self._config = config, outside the with block
config_setter_assign(t) ==
    /\ pc[t] = "set_assign"
    /\ config' = arg[t]
    /\ Finish(t, "ok", 0, arg[t])
    /\ UNCHANGED << dataset_configs, dataset_cache, image_cache, tile_cache,
                    place_group_cache, lock, mlds, returned, nsets, aux >>

\* -------------------------------------------------------- specification

Next ==
    \E t \in Threads :
        \/ get_dataset_config(t)
        \/ get_dataset_configs_check(t)
        \/ get_dataset_configs_lock(t)
        \/ get_dataset_configs_compute(t)
        \/ get_dataset_configs_return(t)
        \/ get_dataset_entry(t)
        \/ get_dataset_entry_lock(t)
        \/ open_ml_dataset(t)
        \/ augment_ml_dataset(t)
        \/ get_dataset_entry_set(t)
        \/ get_dataset_entry_return(t)
        \/ tile_put(t)
        \/ get_dataset_place_groups(t)
        \/ place_groups_scan(t)
        \/ place_groups_put(t)
        \/ config_setter(t)
        \/ config_setter_lock(t)
        \/ config_setter_close(t)
        \/ config_setter_clear_dataset_cache(t)
        \/ config_setter_clear_image_cache(t)
        \/ config_setter_clear_tile_cache(t)
        \/ config_setter_clear_place_group_cache(t)
        \/ config_setter_reset(t)
        \/ config_setter_assign(t)

Spec == Init /\ [][Next]_vars

\* ----------------------------------------------------------------- claims

\* the objects the dataset cache refers to
Cached == {dataset_cache[k] : k \in DOMAIN dataset_cache}

\* a lookup through _get_dataset_entry returned in the last step
LookupReturned == ret.op = "get_ml_dataset"

\* C1: under one configuration (no setter call yet), concurrent
\* get_ml_dataset calls for the same ds_id lead to one construction only,
\* and every caller gets the same object.
C1_SingleConstruction ==
    nsets = 0 =>
        /\ \A o1, o2 \in DOMAIN mlds :
              (mlds[o1].built /\ mlds[o2].built /\ mlds[o1].ds_id = mlds[o2].ds_id)
                  => o1 = o2
        /\ (LookupReturned /\ ret.kind = "ok" /\ ret.id \in DOMAIN returned)
              => ret.obj = returned[ret.id]

\* C2: a lookup that starts after the config setter has returned (and that
\* no setter call overlaps) answers from the installed configuration: the
\* dataset it returns was opened under it, and the list of dataset
\* configurations it consults was computed from it.
C2_AnswersFromNewConfig ==
    (ret.op \in {"get_ml_dataset", "get_dataset_config"} /\ ret.quiet /\ nsets >= 1
       /\ ret.kind \in {"ok", "NotFound"})
        => ret.cfg = config

\* C3: when the config setter returns, every dataset that was cached has
\* been closed, the dataset, image, tile and place-group caches are empty,
\* the cached list of dataset configurations is reset, and the new
\* configuration is installed.
C3_SetterResetsAll ==
    ret.op = "config" =>
        /\ \A o \in {ret.old.cache[k] : k \in DOMAIN ret.old.cache} : mlds[o].closed
        /\ dataset_cache = << >>
        /\ image_cache = {}
        /\ tile_cache = {}
        /\ place_group_cache = {}
        /\ dataset_configs = NoList
        /\ config = ret.cfg

\* everything that was visible when the setter call of thread t took the
\* lock (or, with a falsy old configuration, when it started) is still
\* there: the old configuration, the list computed from it, every cached
\* dataset, open, and every cached image, tile and place group
OldComplete(t) ==
    LET old == hist[t].old
    IN /\ config = old.config
       /\ old.list # NoList => dataset_configs = old.list
       /\ \A k \in DOMAIN old.cache :
             k \in DOMAIN dataset_cache /\ ~mlds[old.cache[k]].closed
       /\ old.image \subseteq image_cache
       /\ old.tile \subseteq tile_cache
       /\ old.places \subseteq place_group_cache

\* the state the setter call of thread t is to establish
NewComplete(t) ==
    /\ config = arg[t]
    /\ dataset_cache = << >>
    /\ image_cache = {}
    /\ tile_cache = {}
    /\ place_group_cache = {}
    /\ dataset_configs = NoList

\* positions at which a thread reads the caches without holding the lock
ReadPoints == {"entry_return", "cfgs_return"}

\* C4: what a reader sees while a setter call is running is either the
\* complete old state or the complete new state.
C4_AtomicReplacement ==
    \A t \in Threads : pc[t] \in (SetterPcs \ {"set_lock"}) =>
        \A r \in Threads \ {t} : (pc[r] \in ReadPoints /\ lock.owner # r) =>
            OldComplete(t) \/ NewComplete(t)

\* C5: while the configuration is not replaced, after a lookup of ds_id has
\* returned an object, a later lookup of ds_id runs no construction and
\* returns that same object.
C5_StableEntry ==
    /\ \A t \in Threads :
          (op[t] = "get_ml_dataset" /\ hist[t].known /\ ~hist[t].dirty)
              => pc[t] = "entry_return"
    /\ (LookupReturned /\ ret.known /\ ret.quiet)
          => (ret.kind = "ok" /\ ret.obj = returned[ret.id])

\* C6: when the construction run by a lookup of ds_id fails, the error
\* reaches the caller and the dataset cache holds no entry for ds_id, so
\* that the next lookup of ds_id constructs anew.
C6_FailedNotCached ==
    (LookupReturned /\ ret.kind \in {"NotFound", "ConfigError"})
        => ret.id \notin DOMAIN dataset_cache

C8_NeverReturnsClosed ==
    (LookupReturned /\ ret.kind = "ok") => ~mlds[ret.obj].closed

\* C9: every dataset a lookup has constructed and that is not closed is
\* referenced by the dataset cache.
C9_OpenDatasetsCached ==
    \A o \in DOMAIN mlds : (mlds[o].built /\ ~mlds[o].closed) => o \in Cached

\* ds_id is the Identifier of no dataset configuration
Unknown(id) == \A c \in ConfigIds : find_dataset_config(c, id) = 0

\* C10: a call of get_ml_dataset or get_dataset_config with a ds_id that is
\* the Identifier of no dataset configuration ends with the not-found error.
C10_UnknownIsNotFound ==
    (ret.op \in {"get_ml_dataset", "get_dataset_config"} /\ ret.id \in DsIds
       /\ Unknown(ret.id))
        => ret.kind = "NotFound"

\* =================================================== functions and methods
\* whose result depends on their arguments only

\* levels of the multi-level datasets that are passed to them
MaxLevels == 2
\* length of a list of expected variable names
MaxNames == 2

\* every sequence over S of length 0..n
SeqsUpTo(S, n) == UNION {[1..k -> S] : k \in 0..n}

\* names of variables; "c" is in no dataset
VarNames == {"a", "b", "c"}
\* an xr.Dataset, as far as `var_name in dataset` goes: the names it contains
DatasetValues == SUBSET {"a", "b"}
\* a MultiLevelDataset: its datasets, level 0 (the base dataset) first
MlDatasets == SeqsUpTo(DatasetValues, MaxLevels) \ {<< >>}

\* raise ServiceResourceNotFoundError(...)
NotFound(what, name) == [kind |-> "NotFound", what |-> what, name |-> name]
\* return value
Ok(value) == [kind |-> "ok", value |-> value]

\* the loop of get_dataset, lines 243-245, from position i on: the first name
\* that is not in the dataset raises
RECURSIVE expect_var_names(_, _, _)
expect_var_names(dataset, expected_var_names, i) ==
    IF i > Len(expected_var_names) THEN Ok(dataset)
    ELSE IF expected_var_names[i] \notin dataset
         THEN NotFound("Variable", expected_var_names[i])
         ELSE expect_var_names(dataset, expected_var_names, i + 1)

\* (for C11) the loop looks at the first name only
get_dataset_first_name_only(ml_dataset, expected_var_names) ==
    IF expected_var_names # << >> /\ expected_var_names[1] \notin ml_dataset[1]
    THEN NotFound("Variable", expected_var_names[1])
    ELSE Ok(ml_dataset[1])

\* get_dataset(ds_id, expected_var_names), lines 241-246, for the
\* MultiLevelDataset that _get_dataset_entry(ds_id) returned
get_dataset(ml_dataset, expected_var_names) ==
    LET dataset == ml_dataset[1]
    IN IF expected_var_names # << >>
       THEN expect_var_names(dataset, expected_var_names, 1)
       ELSE Ok(dataset)

\* (for C21) z_index counts the levels from level 0 on
get_variable_for_z_from_level_0(ml_dataset, var_name, z_index) ==
    LET num_levels == Len(ml_dataset)
        index == z_index
    IN IF index < 0 \/ index >= num_levels
       THEN NotFound("z-index", var_name)
       ELSE IF var_name \notin ml_dataset[index + 1]
            THEN NotFound("Variable", var_name)
            ELSE Ok(<< index, var_name >>)

\* get_variable_for_z(ds_id, var_name, z_index), lines 261-267, for the
\* MultiLevelDataset that get_ml_dataset(ds_id) returned; level `index` is
\* element index + 1 of the sequence
get_variable_for_z(ml_dataset, var_name, z_index) ==
    LET num_levels == Len(ml_dataset)
        index == num_levels - 1 - z_index
    IN IF index < 0 \/ index >= num_levels
       THEN NotFound("z-index", var_name)
       ELSE IF var_name \notin ml_dataset[index + 1]
            THEN NotFound("Variable", var_name)
            ELSE Ok(<< index, var_name >>)

\* the levels that get_variable_for_z asks the MultiLevelDataset for
\* (ml_dataset.get_dataset(index), line 264, after the check of lines 262-263)
levels_requested(ml_dataset, z_index) ==
    LET num_levels == Len(ml_dataset)
        index == num_levels - 1 - z_index
    IN IF index < 0 \/ index >= num_levels THEN {} ELSE {index}

\* -------------------------------------------------- the calls that are made

NewCall(fn, args) == [fn |-> fn, args |-> args, out |-> << >>, done |-> FALSE]

get_dataset_calls ==
    {NewCall("get_dataset", << m, e >>) :
        m \in MlDatasets, e \in SeqsUpTo(VarNames, MaxNames)}

get_variable_for_z_calls ==
    {NewCall("get_variable_for_z", << m, v, z >>) :
        m \in MlDatasets, v \in VarNames, z \in (0 - 1)..MaxLevels}

\* the context is not used during such a call
NoContext ==
    /\ config = 0
    /\ dataset_configs = NoList
    /\ dataset_cache = << >>
    /\ image_cache = {}
    /\ tile_cache = {}
    /\ place_group_cache = {}
    /\ lock = [owner |-> NoThread, count |-> 0]
    /\ mlds = << >>
    /\ pc = [t \in Threads |-> "idle"]
    /\ op = [t \in Threads |-> "none"]
    /\ arg = [t \in Threads |-> 0]
    /\ loc = [t \in Threads |-> NoLoc]
    /\ hist = [t \in Threads |-> NoHist]
    /\ ret = NoRet
    /\ returned = << >>
    /\ nsets = 0

\* the call returns (or raises) `out`
Return(out) ==
    /\ call' = [call EXCEPT !.out = out, !.done = TRUE]
    /\ UNCHANGED << context, lru_cache, lazy_mld, data_store_pool,
           datasets_listing, wcs_handler >>

Pending(fn) == call.fn = fn /\ ~call.done
Done(fn) == call.fn = fn /\ call.done

call_get_dataset ==
    /\ Pending("get_dataset")
    /\ Return(get_dataset(call.args[1], call.args[2]))

call_get_variable_for_z ==
    /\ Pending("get_variable_for_z")
    /\ Return(get_variable_for_z(call.args[1], call.args[2], call.args[3]))

\* --------------------------------------------------- rasters and resampling

\* no-data; the valid cell values are not negative
NaN == 0 - 1
\* a cell value v is kept as the integer 12 * v, which keeps the mean of up to
\* 4 and of 16 whole cell values exact
Scale == 12
\* the largest whole cell value of the small rasters
MaxValue == 2

ValidValues == {Scale * v : v \in 0..MaxValue}
CellValues == {NaN} \cup ValidValues

\* a 2-D array is the sequence of its rows
height(a) == Len(a)
width(a) == Len(a[1])

\* np.arange(h * w).reshape((h, w)), scaled by s
arange(h, w, s) == [r \in 1..h |-> [c \in 1..w |-> s * (w * (r - 1) + (c - 1))]]

\* the k x k cells that contribute to output cell (i, j), row by row
block_cells(a, k, i, j) ==
    [n \in 1..(k * k) |->
        a[(i - 1) * k + ((n - 1) \div k) + 1][(j - 1) * k + ((n - 1) % k) + 1]]

RECURSIVE nan_sum(_)
nan_sum(cells) ==
    IF cells = << >> THEN 0
    ELSE (IF Head(cells) = NaN THEN 0 ELSE Head(cells)) + nan_sum(Tail(cells))

RECURSIVE nan_count(_)
nan_count(cells) ==
    IF cells = << >> THEN 0
    ELSE (IF Head(cells) = NaN THEN 0 ELSE 1) + nan_count(Tail(cells))

\* (for C15) the mean over all the cells of the block, no-data ones counted
mean_of_all(cells) ==
    IF nan_count(cells) = 0 THEN NaN ELSE nan_sum(cells) \div Len(cells)

\* the mean of the cells that are not no-data; no-data if there is none
nan_mean(cells) ==
    IF nan_count(cells) = 0 THEN NaN ELSE nan_sum(cells) \div nan_count(cells)

\* downscaling of a raster by the integer factor k
downscale(a, k) ==
    [i \in 1..(height(a) \div k) |->
        [j \in 1..(width(a) \div k) |-> nan_mean(block_cells(a, k, i, j))]]

\* the rasters of 2 x 2 cells
SmallRasters == [1..2 -> [1..2 -> CellValues]]
\* the 4 x 4 raster 0..15 with no-data at some cells of its first block
HoleRasters ==
    {[r \in 1..4 |-> [c \in 1..4 |-> IF << r, c >> \in holes THEN NaN
                                      ELSE arange(4, 4, Scale)[r][c]]] :
        holes \in SUBSET ((1..2) \X (1..2))}

downscale_calls ==
    {NewCall("downscale", << a, k >>) : a \in SmallRasters, k \in {1, 2}}
        \cup {NewCall("downscale", << a, 2 >>) : a \in HoleRasters}
        \cup {NewCall("downscale", << arange(4, 4, Scale), 4 >>)}

call_downscale ==
    /\ Pending("downscale")
    /\ Return(downscale(call.args[1], call.args[2]))

\* upscaling: a target cell is 1 / UpscaleFactor of a source cell wide
UpscaleFactor == 2
\* the target raster has TargetSize x TargetSize cells
TargetSize == 4
\* the target raster begins up to this many target cells before or after the
\* source raster, in x and in y
MaxOffset == 2

NoIndex == 0

\* (for C16) the index of the source cell that is nearest to the location,
\* also for a location outside the source raster
nearest_index(centre2, n) ==
    IF centre2 < 0 THEN 1
    ELSE IF centre2 >= 2 * UpscaleFactor * n THEN n
    ELSE centre2 \div (2 * UpscaleFactor) + 1

\* the index of the source cell (of n) that encloses the location centre2,
\* given in halves of a target cell from the begin of the source raster;
\* NoIndex outside the source raster
source_index(centre2, n) ==
    IF centre2 < 0 \/ centre2 >= 2 * UpscaleFactor * n THEN NoIndex
    ELSE centre2 \div (2 * UpscaleFactor) + 1

\* resample_in_space for a target raster of finer resolution that begins
\* (dx, dy) target cells from the begin of the source raster: every target cell
\* takes the value of the source cell that encloses its centre
resample_in_space(source, dx, dy) ==
    [i \in 1..TargetSize |->
        [j \in 1..TargetSize |->
            LET r == source_index(2 * dy + 2 * i - 1, height(source))
                c == source_index(2 * dx + 2 * j - 1, width(source))
            IN IF r = NoIndex \/ c = NoIndex THEN NaN ELSE source[r][c]]]

\* source rasters of 2 x 2 valid cells
ValidRasters == [1..2 -> [1..2 -> ValidValues]]
Offsets == (0 - MaxOffset)..MaxOffset

resample_in_space_calls ==
    {NewCall("resample_in_space", << a, dx, dy >>) :
        a \in ValidRasters, dx \in Offsets, dy \in Offsets}

call_resample_in_space ==
    /\ Pending("resample_in_space")
    /\ Return(resample_in_space(call.args[1], call.args[2], call.args[3]))

\* ------------------------------------------------ a number or a pair of them

\* the longest sequence that is passed as a value
MaxTupleLen == 3

\* a value: a number (kept in tenths: 19 is 1.9), the string 'xyz', or a
\* sequence of numbers and strings
Number(x) == [type |-> "number", x |-> x, items |-> << >>]
Str == [type |-> "str", x |-> 0, items |-> << >>]
Tuple(items) == [type |-> "seq", x |-> 0, items |-> items]

Tenths == {0 - 19, 0 - 11, 0, 10, 11, 19, 20}
Items == {Number(x) : x \in Tenths} \cup {Str}
Values == Items \cup {Tuple(s) : s \in SeqsUpTo(Items, MaxTupleLen)}
ItemTypes == {"int", "float"}

\* raise ValueError(f'Value "{value}" must be a number or a segment of two
\* numbers')
ValueError(value) == [kind |-> "ValueError", value |-> value]

\* (for C17) the largest whole number that is not above x
to_int_floor(x) == (x \div 10) * 10

\* int(x): the fraction is cut off
to_int(x) == IF x >= 0 THEN (x \div 10) * 10 ELSE 0 - (((0 - x) \div 10) * 10)

\* item_type(x)
convert(item_type, x) == IF item_type = "int" THEN to_int(x) ELSE x

is_number(value) == value.type = "number"

is_pair_of_numbers(value) ==
    /\ value.type = "seq"
    /\ Len(value.items) = 2
    /\ is_number(value.items[1])
    /\ is_number(value.items[2])

normalize_number_scalar_or_pair(value, item_type) ==
    IF is_number(value)
    THEN Ok(<< convert(item_type, value.x), convert(item_type, value.x) >>)
    ELSE IF is_pair_of_numbers(value)
         THEN Ok(<< convert(item_type, value.items[1].x),
                    convert(item_type, value.items[2].x) >>)
         ELSE ValueError(value)

normalize_number_scalar_or_pair_calls ==
    {NewCall("normalize_number_scalar_or_pair", << v, t >>) :
        v \in Values, t \in ItemTypes}

call_normalize_number_scalar_or_pair ==
    /\ Pending("normalize_number_scalar_or_pair")
    /\ Return(normalize_number_scalar_or_pair(call.args[1], call.args[2]))

\* ------------------------------------------------------------ tiled images

\* the largest height and width of the tiles that are trimmed
MaxTile == 2
TileValues == {0, 1}

\* trim_tile with its fill value: columns of fill_value are appended up to the
\* expected width, then rows of fill_value up to the expected height
trim_tile_filled(tile, expected_tile_size, fill_value) ==
    LET expected_width == expected_tile_size[1]
        expected_height == expected_tile_size[2]
        actual_width == width(tile)
        actual_height == height(tile)
        wide == IF expected_width > actual_width
                THEN [r \in 1..actual_height |->
                         tile[r] \o [c \in 1..(expected_width - actual_width) |-> fill_value]]
                ELSE tile
    IN IF expected_height > actual_height
       THEN wide \o [r \in 1..(expected_height - actual_height) |->
                        [c \in 1..width(wide) |-> fill_value]]
       ELSE wide

\* (for C18) the tile is filled up with zeros
trim_tile_zero_filled(tile, expected_tile_size) ==
    trim_tile_filled(tile, expected_tile_size, 0)

\* trim_tile(tile, expected_tile_size): fill_value is np.nan
trim_tile(tile, expected_tile_size) ==
    trim_tile_filled(tile, expected_tile_size, NaN)

Tiles == UNION {[1..h -> [1..w -> TileValues]] : h \in 1..MaxTile, w \in 1..MaxTile}

\* the expected size is the size of the tile or one more, in x and in y
trim_tile_calls ==
    UNION {{NewCall("trim_tile", << a, << w, h >> >>) :
               w \in width(a)..(width(a) + 1), h \in height(a)..(height(a) + 1)} :
           a \in Tiles \cup {arange(2, 3, 1)}}

call_trim_tile ==
    /\ Pending("trim_tile")
    /\ Return(trim_tile(call.args[1], call.args[2]))

\* ArrayImage(array, tile_size), tile_size = (tile_width, tile_height)
ArrayImage(array, tile_size) == [array |-> array, tile_size |-> tile_size]
\* TransformArrayImage(source_image, flip_y=flip_y)
TransformArrayImage(source_image, flip_y) ==
    [source_image |-> source_image, flip_y |-> flip_y]

\* image.size = (width, height)
image_size(image) ==
    << width(image.source_image.array), height(image.source_image.array) >>

\* image.num_tiles = (number of tiles in x, in y)
image_num_tiles(image) ==
    << image_size(image)[1] \div image.source_image.tile_size[1],
       image_size(image)[2] \div image.source_image.tile_size[2] >>

\* ArrayImage.get_tile(tile_x, tile_y): the window of the array
array_image_get_tile(source_image, tile_x, tile_y) ==
    LET tw == source_image.tile_size[1]
        th == source_image.tile_size[2]
    IN [r \in 1..th |->
           [c \in 1..tw |-> source_image.array[tile_y * th + r][tile_x * tw + c]]]

\* np.flipud(a)
flipud(a) == [r \in 1..Len(a) |-> a[Len(a) + 1 - r]]

\* (for C19) the tile of the same row of tiles, upside down
get_tile_flipped_in_place(image, tile_x, tile_y) ==
    IF image.flip_y
    THEN flipud(array_image_get_tile(image.source_image, tile_x, tile_y))
    ELSE array_image_get_tile(image.source_image, tile_x, tile_y)

\* TransformArrayImage.get_tile(tile_x, tile_y): with flip_y the tile of the
\* opposite row of tiles of the source image, upside down
get_tile(image, tile_x, tile_y) ==
    IF image.flip_y
    THEN flipud(array_image_get_tile(image.source_image, tile_x,
                                     image_num_tiles(image)[2] - 1 - tile_y))
    ELSE array_image_get_tile(image.source_image, tile_x, tile_y)

ImageHeights == {2, 4}
ImageWidths == {2, 6}
TileSides == {1, 2}

Images ==
    {TransformArrayImage(ArrayImage(arange(h, w, 1), << tw, th >>), f) :
        h \in ImageHeights, w \in ImageWidths, tw \in TileSides, th \in TileSides,
        f \in BOOLEAN}

\* the tiles of an image, by (tile_x, tile_y)
tile_indexes(image) ==
    (0..(image_num_tiles(image)[1] - 1)) \X (0..(image_num_tiles(image)[2] - 1))

get_tile_calls ==
    UNION {{NewCall("get_tile", << image, t[1], t[2] >>) : t \in tile_indexes(image)} :
           image \in Images}

\* a tile of the image is asked for, and the image's size and num_tiles
call_get_tile ==
    /\ Pending("get_tile")
    /\ Return([size |-> image_size(call.args[1]),
               num_tiles |-> image_num_tiles(call.args[1]),
               tile |-> get_tile(call.args[1], call.args[2], call.args[3])])

\* ------------------------------------------------ WCS GetCoverage requests

\* a CoverageRequest, as far as _validate_coverage_req looks at it: whether
\* COVERAGE and CRS and FORMAT are given and valid, whether BBOX and TIME are
\* given and valid, and whether the other parameters are given
BboxOrTime == {"none", "valid", "invalid"}
CoverageRequests ==
    [coverage : BOOLEAN, crs : BOOLEAN, bbox : BboxOrTime, time : BboxOrTime,
     width : BOOLEAN, height : BOOLEAN, resx : BOOLEAN, resy : BOOLEAN,
     format : BOOLEAN, parameter : BOOLEAN, interpolation : BOOLEAN,
     exceptions : BOOLEAN]

\* _has_no_invalid_time(), lines 227-231
has_no_invalid_time(req) == req.time # "invalid"

\* the condition of the `if` of lines 233-252; _has_no_invalid_bbox is not
\* called there (line 237), a function object is true
coverage_req_is_valid(req) ==
    /\ req.coverage
    /\ req.crs
    /\ (req.bbox = "valid" \/ req.time = "valid")
    /\ TRUE
    /\ has_no_invalid_time(req)
    /\ ((req.width /\ req.height) \/ (req.resx /\ req.resy))
    /\ \/ (req.width /\ ~req.resx)
       \/ (req.width /\ ~req.resy)
       \/ (req.height /\ ~req.resx)
       \/ (req.height /\ ~req.resy)
       \/ (req.resx /\ ~req.width)
       \/ (req.resx /\ ~req.height)
       \/ (req.resy /\ ~req.width)
       \/ (req.resy /\ ~req.height)
    /\ req.format
    /\ ~req.parameter
    /\ ~req.interpolation
    /\ ~req.exceptions

\* the condition of the `elif` of lines 262-267; `and` binds tighter than `or`
size_is_incomplete(req) ==
    \/ (req.width /\ ~req.height)
    \/ (req.height /\ ~req.width)
    \/ (req.resx /\ ~req.resy)
    \/ (req.resy /\ ~req.resx)
    \/ ((req.width /\ req.resx) \/ req.resy)
    \/ ((req.height /\ req.resx) \/ req.resy)

\* _validate_coverage_req(ctx, req), lines 220-276: returns None or raises
\* ValueError with one of its messages
validate_coverage_req(req) ==
    IF coverage_req_is_valid(req) THEN Ok("None")
    ELSE IF ~req.coverage THEN ValueError("No valid value for parameter COVERAGE provided")
    ELSE IF req.parameter THEN ValueError("PARAMETER not yet supported")
    ELSE IF req.interpolation THEN ValueError("INTERPOLATION not yet supported")
    ELSE IF req.exceptions THEN ValueError("EXCEPTIONS not yet supported")
    ELSE IF size_is_incomplete(req)
         THEN ValueError("Either both WIDTH and HEIGHT, or both RESX and RESY must be provided.")
    ELSE IF ~req.format THEN ValueError("FORMAT wrong or missing")
    ELSE ValueError("Reason unclear, fix me")

validate_coverage_req_calls ==
    {NewCall("validate_coverage_req", << req >>) : req \in CoverageRequests}

call_validate_coverage_req ==
    /\ Pending("validate_coverage_req")
    /\ Return(validate_coverage_req(call.args[1]))

\* -------------------------------------------------------- required scopes

\* the most scopes in a 'RequiredScopes' list
MaxScopes == 2

\* a scope is the sequence of its parts between the colons: 'read:dataset:x'
\* is << "read", "dataset", "x" >>
Scopes ==
    {<< "read", "dataset" >>, << "read", "dataset", "ds1" >>,
     << "read", "dataset", "{Dataset}" >>, << "read", "datasets" >>,
     << "read", "variable" >>, << "read", "variable", "v1" >>,
     << "read", "variable", "{Variable}" >>, << "write", "dataset" >>,
     << "read" >>}

ScopeLists == {l \in SUBSET Scopes : Cardinality(l) <= MaxScopes}

\* scope.startswith(base_scope + ':')
starts_with_prefix(scope, base_scope) ==
    /\ Len(scope) > Len(base_scope)
    /\ SubSeq(scope, 1, Len(base_scope)) = base_scope

\* '{' + value_name + '}'
pattern_part(value_name) ==
    CASE value_name = "Dataset" -> "{Dataset}"
      [] value_name = "Variable" -> "{Variable}"

\* lines 216-218: the global and the dataset's scopes of the base scope
scopes_of_base(required_scopes, dataset_required_scopes, base_scope) ==
    {scope \in required_scopes \cup dataset_required_scopes :
        scope = base_scope \/ starts_with_prefix(scope, base_scope)}

\* (for C26) the pattern scope is left as it is
get_required_scopes_with_pattern(required_scopes, dataset_required_scopes, base_scope, value_name, value) ==
    scopes_of_base(required_scopes, dataset_required_scopes, base_scope)

\* _get_required_scopes, lines 207-222, for the global required scopes and
\* the 'RequiredScopes' of the dataset configuration
get_required_scopes(required_scopes, dataset_required_scopes, base_scope, value_name, value) ==
    LET pattern_scope == Append(base_scope, pattern_part(value_name))
        scopes == scopes_of_base(required_scopes, dataset_required_scopes, base_scope)
    IN IF pattern_scope \in scopes
       THEN (scopes \ {pattern_scope}) \cup {Append(base_scope, value)}
       ELSE scopes

\* lines 196-199
get_required_dataset_scopes(required_scopes, dataset_required_scopes, identifier) ==
    get_required_scopes(required_scopes, dataset_required_scopes,
                        << "read", "dataset" >>, "Dataset", identifier)

\* lines 201-205
get_required_variable_scopes(required_scopes, dataset_required_scopes, var_name) ==
    get_required_scopes(required_scopes, dataset_required_scopes,
                        << "read", "variable" >>, "Variable", var_name)

get_required_dataset_scopes_calls ==
    {NewCall("get_required_dataset_scopes", << g, d, "ds1" >>) :
        g \in ScopeLists, d \in ScopeLists}

get_required_variable_scopes_calls ==
    {NewCall("get_required_variable_scopes", << g, d, "v1" >>) :
        g \in ScopeLists, d \in ScopeLists}

call_get_required_dataset_scopes ==
    /\ Pending("get_required_dataset_scopes")
    /\ Return(get_required_dataset_scopes(call.args[1], call.args[2], call.args[3]))

call_get_required_variable_scopes ==
    /\ Pending("get_required_variable_scopes")
    /\ Return(get_required_variable_scopes(call.args[1], call.args[2], call.args[3]))

\* -------------------------------------------------- time series datasets

\* a dataset configuration with its 'TimeSeriesDataset' ("none": no such
\* key), and the variables of the dataset it opens
TsConfig(id, ts, fs, names) ==
    [Identifier |-> id, TimeSeriesDataset |-> ts, FileSystem |-> fs, names |-> names]

\* lists of dataset configurations: dataset "d", and dataset "ts" or not
TsConfigLists ==
    LET d == {TsConfig("d", ts, fs, names) :
                 ts \in {"none", "ts", "d", "nope"}, fs \in {"memory", "local"},
                 names \in SUBSET {"a"}}
        t == {TsConfig("ts", "none", fs, names) :
                 fs \in {"memory", "local"}, names \in SUBSET {"a"}}
    IN {<< x >> : x \in d} \cup {<< x, y >> : x \in d, y \in t}

\* find_dataset_config(configs, ds_id), lines 926-931: the position
\* of the first configuration of that Identifier, 0 for None
find_config(configs, ds_id) ==
    LET hits == {i \in 1..Len(configs) : configs[i].Identifier = ds_id}
    IN IF hits = {} THEN 0 ELSE CHOOSE i \in hits : \A j \in hits : i <= j

\* raise ServiceConfigError(...), lines 659-662
ConfigError(ds_id) == [kind |-> "ConfigError", ds_id |-> ds_id]

\* get_dataset(ds_id, expected_var_names), lines 239-246, with the lookup of
\* line 240 made by one thread: get_dataset_config (lines 518-525),
\* _open_ml_dataset (lines 659-662), then the check of the variables
get_dataset_of(configs, ds_id, expected_var_names) ==
    LET i == find_config(configs, ds_id)
    IN IF i = 0 THEN NotFound("Dataset", ds_id)
       ELSE IF configs[i].FileSystem # "memory" THEN ConfigError(ds_id)
       ELSE LET checked == get_dataset(<< configs[i].names >>, expected_var_names)
            IN IF checked.kind = "ok"
               THEN Ok([ds_id |-> ds_id, names |-> configs[i].names])
               ELSE checked

\* (for C27) the dataset named by 'TimeSeriesDataset' is not looked at
get_time_series_dataset_of_own(configs, ds_id, var_name) ==
    IF find_config(configs, ds_id) = 0 THEN NotFound("Dataset", ds_id)
    ELSE get_dataset_of(configs, ds_id,
                        IF var_name # "None" THEN << var_name >> ELSE << >>)

\* get_time_series_dataset(ds_id, var_name), lines 248-257
get_time_series_dataset(configs, ds_id, var_name) ==
    LET i == find_config(configs, ds_id)
    IN IF i = 0 THEN NotFound("Dataset", ds_id)
       ELSE LET ts_ds_name == IF configs[i].TimeSeriesDataset = "none"
                              THEN ds_id
                              ELSE configs[i].TimeSeriesDataset
                expected_var_names == IF var_name # "None" THEN << var_name >> ELSE << >>
                first == get_dataset_of(configs, ts_ds_name, expected_var_names)
            IN IF first.kind = "NotFound"
               THEN get_dataset_of(configs, ds_id, expected_var_names)
               ELSE first

get_time_series_dataset_calls ==
    {NewCall("get_time_series_dataset", << l, ds_id, var_name >>) :
        l \in TsConfigLists, ds_id \in {"d", "ts", "nope"}, var_name \in {"a", "None"}}

call_get_time_series_dataset ==
    /\ Pending("get_time_series_dataset")
    /\ Return(get_time_series_dataset(call.args[1], call.args[2], call.args[3]))

\* ------------------------------------------------ datasets around a point

\* dataset dictionaries of get_datasets, catalogue.py lines 36-54: without a
\* 'bbox' (<< >>) or with one of four numbers
DatasetDicts ==
    {[id |-> "d", bbox |-> << >>]} \cup
    {[id |-> "d", bbox |-> << x_min, y_min, x_max, y_max >>] :
        x_min \in {-180, -90, 0, 90, 180}, x_max \in {-180, -90, 0, 90, 180},
        y_min \in {-45, 0, 45}, y_max \in {-45, 0, 45}}

\* _is_point_in_dataset_bbox(point, dataset_dict), catalogue.py lines 180-191
is_point_in_dataset_bbox(point, dataset_dict) ==
    IF dataset_dict.bbox = << >> THEN FALSE
    ELSE LET x == point[1]
             y == point[2]
             x_min == dataset_dict.bbox[1]
             y_min == dataset_dict.bbox[2]
             x_max == dataset_dict.bbox[3]
             y_max == dataset_dict.bbox[4]
         IN IF ~(y_min <= y /\ y <= y_max) THEN FALSE
            ELSE IF x_min < x_max THEN x_min <= x /\ x <= x_max
            ELSE (x_min <= x /\ x <= 180) \/ (-180 <= x /\ x <= x_max)

is_point_in_dataset_bbox_calls ==
    {NewCall("is_point_in_dataset_bbox", << << x, y >>, d >>) :
        x \in {-180, -90, 0, 90, 180}, y \in {-45, 0, 45}, d \in DatasetDicts}

call_is_point_in_dataset_bbox ==
    /\ Pending("is_point_in_dataset_bbox")
    /\ Return(Ok(is_point_in_dataset_bbox(call.args[1], call.args[2])))

\* ------------------------------------------------------ the URL prefix

\* parts that a prefix has at most
MaxPrefixLen == 5

\* a prefix is a sequence of parts: the character '/', some other
\* character, and the two patterns that lines 970-971 replace
PrefixParts == {"/", "a", "${name}", "${version}"}

\* prefix.replace(old, new) for a part that is not '/'
replace_part(prefix, old, new) ==
    [i \in 1..Len(prefix) |-> IF prefix[i] = old THEN new ELSE prefix[i]]

\* prefix.replace('//', '/'), line 972: one pass from the left over
\* occurrences that do not overlap
RECURSIVE replace_slashes(_)
replace_slashes(prefix) ==
    IF Len(prefix) < 2 THEN prefix
    ELSE IF prefix[1] = "/" /\ prefix[2] = "/"
         THEN << "/" >> \o replace_slashes(SubSeq(prefix, 3, Len(prefix)))
         ELSE << prefix[1] >> \o replace_slashes(Tail(prefix))

\* normalize_prefix(prefix), lines 966-983
normalize_prefix(prefix) ==
    IF prefix = << >> THEN << >>
    ELSE LET named == replace_part(prefix, "${name}", "xcube")
             versioned == replace_part(named, "${version}", "version")
             replaced == replace_slashes(replace_slashes(versioned))
             started == IF replaced[1] # "/" THEN << "/" >> \o replaced ELSE replaced
         IN IF replaced = << "/" >> THEN << >>
            ELSE IF started[Len(started)] = "/"
                 THEN SubSeq(started, 1, Len(started) - 1)
                 ELSE started

normalize_prefix_calls ==
    {NewCall("normalize_prefix", << prefix >>) : prefix \in SeqsUpTo(PrefixParts, MaxPrefixLen)}

call_normalize_prefix ==
    /\ Pending("normalize_prefix")
    /\ Return(Ok(normalize_prefix(call.args[1])))

FunctionInit ==
    /\ NoContext
    /\ lru_cache = Unused
    /\ lazy_mld = Unused
    /\ data_store_pool = Unused
    /\ datasets_listing = Unused
    /\ wcs_handler = Unused
    /\ \/ call \in get_dataset_calls
       \/ call \in get_variable_for_z_calls
       \/ call \in downscale_calls
       \/ call \in resample_in_space_calls
       \/ call \in normalize_number_scalar_or_pair_calls
       \/ call \in trim_tile_calls
       \/ call \in get_tile_calls
       \/ call \in validate_coverage_req_calls
       \/ call \in get_required_dataset_scopes_calls
       \/ call \in get_required_variable_scopes_calls
       \/ call \in get_time_series_dataset_calls
       \/ call \in is_point_in_dataset_bbox_calls
       \/ call \in normalize_prefix_calls

FunctionNext ==
    \/ call_get_dataset
    \/ call_get_variable_for_z
    \/ call_downscale
    \/ call_resample_in_space
    \/ call_normalize_number_scalar_or_pair
    \/ call_trim_tile
    \/ call_get_tile
    \/ call_validate_coverage_req
    \/ call_get_required_dataset_scopes
    \/ call_get_required_variable_scopes
    \/ call_get_time_series_dataset
    \/ call_is_point_in_dataset_bbox
    \/ call_normalize_prefix

FunctionSpec == FunctionInit /\ [][FunctionNext]_vars

\* names of a list that are not in a dataset, by position
Missing(dataset, names) == {i \in 1..Len(names) : names[i] \notin dataset}

\* C11: get_dataset returns the base dataset exactly if every expected
\* variable name is in it, and otherwise raises the not-found error for the
\* first name that is missing; get_variable_for_z raises the not-found error
\* whenever var_name is not in the dataset of level num_levels - 1 - z_index.
C11_ExpectedVariables ==
    /\ Done("get_dataset") =>
          LET dataset == call.args[1][1]
              miss == Missing(dataset, call.args[2])
          IN IF miss = {}
             THEN call.out = Ok(dataset)
             ELSE \E i \in miss :
                     /\ \A j \in miss : i <= j
                     /\ call.out = NotFound("Variable", call.args[2][i])
    /\ Done("get_variable_for_z") =>
          LET m == call.args[1]
              level == Len(m) - call.args[3]
          IN /\ (level \in 1..Len(m) /\ call.args[2] \notin m[level])
                   => call.out.kind = "NotFound"
             /\ call.out.kind = "ok" => call.args[2] \in m[level]

\* C11 witness: the first expected name is in the base dataset, the second
\* is not, and the error names the second.
C11_Witness ==
    /\ Done("get_dataset")
    /\ Len(call.args[2]) = 2
    /\ call.args[2][1] \in call.args[1][1]
    /\ call.args[2][2] \notin call.args[1][1]
    /\ call.out = NotFound("Variable", call.args[2][2])

\* the positions of the source cells that contribute to output cell (i, j)
Block(k, i, j) == (((i - 1) * k + 1)..(i * k)) \X (((j - 1) * k + 1)..(j * k))

\* the sum of the cells of a at the positions S
RECURSIVE SumAt(_, _)
SumAt(a, S) ==
    IF S = {} THEN 0
    ELSE LET p == CHOOSE q \in S : TRUE
         IN a[p[1]][p[2]] + SumAt(a, S \ {p})

\* C15: downscaling by k gives a raster of 1/k of the height and width whose
\* every cell is no-data if all the k x k source cells of its block are
\* no-data and otherwise the arithmetic mean of the valid ones among them;
\* the 4 x 4 raster 0..15 downscaled by 2 is [[2.5, 4.5], [10.5, 12.5]].
C15_DownscaleIsBlockMean ==
    Done("downscale") =>
        LET a == call.args[1]
            k == call.args[2]
        IN /\ Len(call.out) = height(a) \div k
           /\ \A i \in 1..Len(call.out) :
                 /\ Len(call.out[i]) = width(a) \div k
                 /\ \A j \in 1..Len(call.out[i]) :
                       LET valid == {p \in Block(k, i, j) : a[p[1]][p[2]] # NaN}
                       IN IF valid = {} THEN call.out[i][j] = NaN
                          ELSE /\ call.out[i][j] # NaN
                               /\ call.out[i][j] * Cardinality(valid) = SumAt(a, valid)
           /\ (a = arange(4, 4, Scale) /\ k = 2) =>
                 call.out = << << (5 * Scale) \div 2, (9 * Scale) \div 2 >>,
                               << (21 * Scale) \div 2, (25 * Scale) \div 2 >> >>

\* C15 witness: the 4 x 4 raster with a no-data cell at its top left is
\* downscaled by 2: the first output cell is the mean of the other three
\* cells of its block, (1 + 4 + 5) / 3, the last one is 12.5.
C15_Witness ==
    /\ Done("downscale")
    /\ call.args[2] = 2
    /\ height(call.args[1]) = 4
    /\ call.args[1][1][1] = NaN
    /\ nan_count(block_cells(call.args[1], 2, 1, 1)) = 3
    /\ call.out[1][1] = (10 * Scale) \div 3
    /\ call.out[2][2] = (25 * Scale) \div 2

\* the centre of target cell n (along x or y) lies within the source raster
\* of `cells` cells, the target raster beginning d target cells from its begin
Inside(d, n, cells) == d + n - 1 >= 0 /\ d + n <= UpscaleFactor * cells

\* C16: every cell of the result of resample_in_space whose centre lies
\* outside the source raster is no-data, and every other cell has the value
\* of a source cell, which is not no-data.
C16_OutsideIsNoData ==
    Done("resample_in_space") =>
        LET source == call.args[1]
        IN \A i \in 1..TargetSize, j \in 1..TargetSize :
              IF Inside(call.args[3], i, height(source))
                    /\ Inside(call.args[2], j, width(source))
              THEN /\ call.out[i][j] # NaN
                   /\ \E r \in 1..height(source), c \in 1..width(source) :
                         call.out[i][j] = source[r][c]
              ELSE call.out[i][j] = NaN

\* C16 witness: a source raster of zeros and a target raster that begins one
\* cell before it: the first row and column of the result are no-data, the
\* cell next to them is 0.
C16_Witness ==
    /\ Done("resample_in_space")
    /\ call.args[2] = 0 - 1
    /\ call.args[3] = 0 - 1
    /\ call.args[1][1][1] = 0
    /\ call.out[1][1] = NaN
    /\ call.out[1][2] = NaN
    /\ call.out[2][2] = 0

\* r is x (in tenths) without its fraction
Truncated(x, r) ==
    /\ r % 10 = 0
    /\ x >= 0 => (r <= x /\ x - r < 10)
    /\ x <= 0 => (r >= x /\ r - x < 10)

\* r is the number x converted to the item type
Converted(item_type, x, r) ==
    IF item_type = "int" THEN Truncated(x, r) ELSE r = x

\* C17: normalize_number_scalar_or_pair(v, T) returns (T(v), T(v)) for a
\* number v and (T(a), T(b)) for a sequence (a, b) of exactly two numbers,
\* where int cuts off the fraction (1.9 gives 1), and raises the ValueError
\* that quotes v for every other value.
C17_ScalarOrPair ==
    Done("normalize_number_scalar_or_pair") =>
        LET v == call.args[1]
            item_type == call.args[2]
        IN /\ v.type = "number" =>
                 /\ call.out.kind = "ok"
                 /\ Converted(item_type, v.x, call.out.value[1])
                 /\ call.out.value[2] = call.out.value[1]
           /\ (v.type = "seq" /\ Len(v.items) = 2
                  /\ \A n \in 1..2 : v.items[n].type = "number") =>
                 /\ call.out.kind = "ok"
                 /\ \A n \in 1..2 : Converted(item_type, v.items[n].x, call.out.value[n])
           /\ (v.type = "str" \/ (v.type = "seq" /\ Len(v.items) # 2)
                  \/ (v.type = "seq" /\ \E n \in 1..Len(v.items) : v.items[n].type # "number"))
                 => call.out = ValueError(v)
           /\ (v = Number(19) /\ item_type = "int") => call.out = Ok(<< 10, 10 >>)

\* C17 witness: (2.0, 1.9) with int gives (2, 1).
C17_Witness ==
    /\ Done("normalize_number_scalar_or_pair")
    /\ call.args[1] = Tuple(<< Number(20), Number(19) >>)
    /\ call.args[2] = "int"
    /\ call.out = Ok(<< 20, 10 >>)

\* C18: trim_tile(a, (w, h)) of an array of h0 <= h rows and w0 <= w columns
\* has h rows of w cells, a at its top left and NaN in every other cell, and
\* is a itself when h0 = h and w0 = w.
C18_TrimTilePadsWithNaN ==
    Done("trim_tile") =>
        LET a == call.args[1]
            w == call.args[2][1]
            h == call.args[2][2]
        IN /\ Len(call.out) = h
           /\ \A r \in 1..h :
                 /\ Len(call.out[r]) = w
                 /\ \A c \in 1..w :
                       call.out[r][c] =
                           IF r <= height(a) /\ c <= width(a) THEN a[r][c] ELSE NaN
           /\ (h = height(a) /\ w = width(a)) => call.out = a

\* C18 witness: the array [[0, 1, 2], [3, 4, 5]] trimmed to (4, 3) has a
\* fourth column and a third row of NaN.
C18_Witness ==
    /\ Done("trim_tile")
    /\ call.args[1] = arange(2, 3, 1)
    /\ call.args[2] = << 4, 3 >>
    /\ call.out = << << 0, 1, 2, NaN >>, << 3, 4, 5, NaN >>, << NaN, NaN, NaN, NaN >> >>

\* the cells of all the tiles of an image that hold the value v
CellsWith(image, v) ==
    {p \in tile_indexes(image) \X (1..image.source_image.tile_size[2])
                               \X (1..image.source_image.tile_size[1]) :
        get_tile(image, p[1][1], p[1][2])[p[2]][p[3]] = v}

\* C19: a TransformArrayImage over an ArrayImage of an H x W array with tile
\* size (tw, th) has size (W, H) and num_tiles (W/tw, H/th); get_tile(tx, ty)
\* is the window of th rows from row ty*th and tw columns from column tx*tw
\* of the array, of the array upside down when flip_y is set; every cell of
\* the array is in exactly one tile, once.
C19_TilesAreWindows ==
    Done("get_tile") =>
        LET image == call.args[1]
            a == image.source_image.array
            tw == image.source_image.tile_size[1]
            th == image.source_image.tile_size[2]
            row(r) == IF image.flip_y THEN height(a) + 1 - r ELSE r
        IN /\ call.out.size = << width(a), height(a) >>
           /\ call.out.num_tiles[1] * tw = width(a)
           /\ call.out.num_tiles[2] * th = height(a)
           /\ Len(call.out.tile) = th
           /\ \A r \in 1..th :
                 /\ Len(call.out.tile[r]) = tw
                 /\ \A c \in 1..tw :
                       call.out.tile[r][c] =
                           a[row(call.args[3] * th + r)][call.args[2] * tw + c]
           /\ \A r \in 1..height(a), c \in 1..width(a) :
                 Cardinality(CellsWith(image, a[r][c])) = 1

\* C19 witness: tile (0, 0) of the 4 x 6 array 0..23 with tiles of 2 x 2 and
\* flip_y is [[18, 19], [12, 13]].
C19_Witness ==
    /\ Done("get_tile")
    /\ call.args[1] = TransformArrayImage(ArrayImage(arange(4, 6, 1), << 2, 2 >>), TRUE)
    /\ call.args[2] = 0
    /\ call.args[3] = 0
    /\ call.out = [size |-> << 6, 4 >>, num_tiles |-> << 3, 2 >>,
                   tile |-> << << 18, 19 >>, << 12, 13 >> >>]

\* the list of dataset configurations computed from configuration c has an
\* entry for ds_id whose FileSystem is not a supported one
BadStorage(c, id) ==
    /\ c \in ConfigIds
    /\ find_dataset_config(c, id) # 0
    /\ Datasets(c)[find_dataset_config(c, id)].FileSystem # "memory"

TileCacheCapacity == 6
\* keys of tiles
TileKeys == {1, 2, 3}
\* sizes of tiles in bytes; the last is larger than the whole cache
TileSizes == {1, 2, 3, TileCacheCapacity + 1}

\* threshold=0.75 (line 119), as numerator and denominator
Threshold == << 3, 4 >>

\* lines 116-121: a Cache with the given capacity and threshold 0.75, empty,
\* if a capacity is given, else None
new_tile_cache(tile_cache_capacity) ==
    IF tile_cache_capacity # 0
    THEN [capacity |-> tile_cache_capacity, threshold |-> Threshold, items |-> << >>]
    ELSE Unused

\* the items of a cache are kept in the order of their last use, the least
\* recently used first
RECURSIVE total_size(_)
total_size(items) ==
    IF items = << >> THEN 0 ELSE Head(items).size + total_size(Tail(items))

keys_of(items) == {items[i].key : i \in 1..Len(items)}

\* the items without the one of the given key
remove_item(items, key) ==
    LET keep(e) == e.key # key IN SelectSeq(items, keep)

\* int(capacity * threshold): the size down to which the cache is trimmed
keep_size(c) == (c.capacity * c.threshold[1]) \div c.threshold[2]

\* least recently used items are removed until the size is within keep
RECURSIVE trim(_, _)
trim(items, keep) ==
    IF items = << >> \/ total_size(items) <= keep THEN items
    ELSE trim(Tail(items), keep)

\* an item is stored under key (replacing the one stored before) as the most
\* recently used one, then the cache is trimmed
put_value(c, key, size) ==
    [c EXCEPT !.items = trim(Append(remove_item(c.items, key),
                                    [key |-> key, size |-> size]),
                             keep_size(c))]

\* (for C13) a lookup that leaves the order of the items as it is
get_value_without_use(c, key) == c

\* a lookup: an item that is found becomes the most recently used one
get_value(c, key) ==
    IF key \in keys_of(c.items)
    THEN LET hit(e) == e.key = key
         IN [c EXCEPT !.items = remove_item(c.items, key) \o SelectSeq(c.items, hit)]
    ELSE c

\* the keys in the order of their last use by the callers of the cache
use(used, key) ==
    LET other(k) == k # key IN Append(SelectSeq(used, other), key)

NoUse == [op |-> "none", key |-> 0, evicted |-> {}]

CacheInit ==
    /\ NoContext
    /\ call = NoCall
    /\ lazy_mld = Unused
    /\ data_store_pool = Unused
    /\ datasets_listing = Unused
    /\ wcs_handler = Unused
    /\ lru_cache = [obj |-> new_tile_cache(TileCacheCapacity), used |-> << >>,
                    last |-> NoUse]

\* a rendered tile is put into the cache
tile_cache_put ==
    /\ \E key \in TileKeys, size \in TileSizes :
          LET c == put_value(lru_cache.obj, key, size)
          IN lru_cache' =
                [obj |-> c,
                 used |-> use(lru_cache.used, key),
                 last |-> [op |-> "put", key |-> key,
                           evicted |-> (keys_of(lru_cache.obj.items) \cup {key})
                                          \ keys_of(c.items)]]
    /\ UNCHANGED << context, call, lazy_mld, data_store_pool,
           datasets_listing, wcs_handler >>

\* a tile is looked up in the cache
tile_cache_get ==
    /\ \E key \in TileKeys :
          LET c == get_value(lru_cache.obj, key)
          IN lru_cache' =
                [obj |-> c,
                 used |-> IF key \in keys_of(lru_cache.obj.items)
                          THEN use(lru_cache.used, key) ELSE lru_cache.used,
                 last |-> [op |-> "get", key |-> key, evicted |-> {}]]
    /\ UNCHANGED << context, call, lazy_mld, data_store_pool,
           datasets_listing, wcs_handler >>

CacheNext == tile_cache_put \/ tile_cache_get

CacheSpec == CacheInit /\ [][CacheNext]_vars

\* position of a key in the order of last use
UsedAt(key) == CHOOSE i \in 1..Len(lru_cache.used) : lru_cache.used[i] = key

\* C13: the tile cache never holds more bytes than its capacity, and the
\* items an insertion evicts were all used less recently than the items it
\* keeps.
C13_TileCacheBounded ==
    /\ total_size(lru_cache.obj.items) <= lru_cache.obj.capacity
    /\ \A e \in lru_cache.last.evicted, k \in keys_of(lru_cache.obj.items) :
          UsedAt(e) < UsedAt(k)

\* C13 witness: an insertion has evicted an item and kept another one that
\* was in the cache before.
C13_Witness ==
    /\ lru_cache.last.op = "put"
    /\ lru_cache.last.evicted # {}
    /\ \E k \in keys_of(lru_cache.obj.items) : k # lru_cache.last.key

\* ================================================ the levels of a dataset

\* num_levels of the MultiLevelDataset
NumLevels == 3
\* the levels that are computed on demand; level 0 is the dataset as opened
LazyLevels == 1..(NumLevels - 1)
\* a computation count is not followed beyond this
MaxComputed == 2

\* the level get_variable_for_z(ds_id, var_name, z_index) asks the
\* MultiLevelDataset for, lines 261-264; -1 when it raises before
requested_level(num_levels, z_index) ==
    LET index == num_levels - 1 - z_index
    IN IF index < 0 \/ index >= num_levels THEN 0 - 1 ELSE index

\* the levels below and including `level` that are not memoized yet: what
\* get_dataset(level) computes, each from the level before it
levels_to_compute(computed, level) ==
    {l \in LazyLevels : l <= level /\ computed[l] = 0}

NoLevel == 0 - 1

MldInit ==
    /\ NoContext
    /\ call = NoCall
    /\ lru_cache = Unused
    /\ data_store_pool = Unused
    /\ datasets_listing = Unused
    /\ wcs_handler = Unused
    /\ lazy_mld = [computed |-> [l \in LazyLevels |-> 0],
                   owner |-> NoThread,
                   pc |-> [t \in Threads |-> "idle"],
                   level |-> [t \in Threads |-> NoLevel],
                   work |-> [t \in Threads |-> NoLevel],
                   requested |-> {},
                   last |-> NoLevel]

\* a step of a request; `last` is the level returned by the step, if any
MldStep(new, last) ==
    /\ lazy_mld' = [new EXCEPT !.last = last]
    /\ UNCHANGED << context, call, lru_cache, data_store_pool,
           datasets_listing, wcs_handler >>

\* a thread calls get_variable_for_z, which calls ml_dataset.get_dataset(index)
\* unless z_index is out of range
mld_request(t) ==
    /\ lazy_mld.pc[t] = "idle"
    /\ \E z_index \in (0 - 1)..NumLevels :
          LET index == requested_level(NumLevels, z_index)
          IN IF index = NoLevel
             THEN MldStep(lazy_mld, NoLevel)
             ELSE MldStep([lazy_mld EXCEPT !.pc[t] = "lock", !.level[t] = index,
                                           !.requested = @ \cup {index}],
                          NoLevel)

\* (for C14) get_dataset(level) that is entered by any number of threads
mld_enter(t) ==
    /\ lazy_mld.pc[t] = "lock"
    /\ MldStep([lazy_mld EXCEPT !.pc[t] = "check"], NoLevel)

\* get_dataset(level) is entered by one thread at a time
mld_lock(t) ==
    /\ lazy_mld.pc[t] = "lock"
    /\ lazy_mld.owner = NoThread
    /\ MldStep([lazy_mld EXCEPT !.pc[t] = "check", !.owner = t], NoLevel)

\* a level that is needed and not memoized: its computation from the level
\* before it starts, the lowest such level first
mld_compute(t) ==
    /\ lazy_mld.pc[t] = "check"
    /\ LET todo == levels_to_compute(lazy_mld.computed, lazy_mld.level[t])
       IN /\ todo # {}
          /\ MldStep([lazy_mld EXCEPT !.pc[t] = "store",
                         !.work[t] = CHOOSE l \in todo : \A k \in todo : l <= k],
                     NoLevel)

\* the computed level is memoized
mld_store(t) ==
    /\ lazy_mld.pc[t] = "store"
    /\ MldStep([lazy_mld EXCEPT !.pc[t] = "check", !.work[t] = NoLevel,
                   !.computed[lazy_mld.work[t]] = IF @ < MaxComputed THEN @ + 1 ELSE @],
               NoLevel)

\* the requested level is memoized: it is returned
mld_return(t) ==
    /\ lazy_mld.pc[t] = "check"
    /\ levels_to_compute(lazy_mld.computed, lazy_mld.level[t]) = {}
    /\ MldStep([lazy_mld EXCEPT !.pc[t] = "idle", !.level[t] = NoLevel,
                                !.owner = IF @ = t THEN NoThread ELSE @],
               lazy_mld.level[t])

MldNext ==
    \E t \in Threads :
        \/ mld_request(t)
        \/ mld_lock(t)
        \/ mld_compute(t)
        \/ mld_store(t)
        \/ mld_return(t)

MldSpec == MldInit /\ [][MldNext]_vars

\* C14: a level is computed at most once, also when it is requested again
\* and by several threads, and every computed level is a requested level or
\* a level below a requested one.
C14_LevelsComputedOnce ==
    \A l \in LazyLevels :
        /\ lazy_mld.computed[l] <= 1
        /\ lazy_mld.computed[l] > 0 => \E r \in lazy_mld.requested : l <= r

\* C14 witness: level 1 has been returned while another thread waits to get
\* it too, it has been computed once, and the level above it not at all.
C14_Witness ==
    /\ lazy_mld.last = 1
    /\ lazy_mld.computed[1] = 1
    /\ lazy_mld.computed[2] = 0
    /\ \E u \in Threads : lazy_mld.pc[u] = "lock" /\ lazy_mld.level[u] = 1

\* ======================================================= the data store pool

\* configuration 3 is not empty and has neither 'Datasets' nor 'DataStores'
PoolConfigIds == ConfigIds \cup {3}
\* calls of the config setter in one run
MaxPoolSets == 3

\* the 'Identifier's of config.get('DataStores', []) of each configuration
DataStores(c) ==
    CASE c = 1 -> {"s1"}
      [] c = 2 -> {"s2"}
      [] OTHER -> {}

\* _data_store_pool is None
NoPool == [none |-> TRUE, stores |-> {}]
\* a DataStorePool with the given store instances
DataStorePool(stores) == [none |-> FALSE, stores |-> stores]

\* get_data_store_pool(), lines 498-516: the value it assigns to
\* self._data_store_pool (if any) and returns
get_data_store_pool(c, pool) ==
    IF DataStores(c) = {} THEN NoPool
    ELSE IF pool.none THEN DataStorePool(DataStores(c))
    ELSE pool

\* lines 147-148 of the config setter:
\* if self._data_store_pool: self._data_store_pool.remove_all_store_configs()
remove_all_store_configs(pool) ==
    IF pool.none THEN pool ELSE DataStorePool({})

\* what get_dataset_configs() does to the pool, lines 273-278:
\* get_dataset_configs_from_stores calls get_data_store_pool (line 432),
\* _maybe_assign_store_instance_ids calls it again (line 334) and installs
\* an empty DataStorePool `if not data_store_pool` (lines 335-336)
maybe_assign_store_instance_ids(c, pool) ==
    LET p == get_data_store_pool(c, get_data_store_pool(c, pool))
    IN IF p.none \/ p.stores = {} THEN DataStorePool({}) ELSE p

NoPoolCall == [op |-> "none", out |-> NoPool]

\* the context without its configuration: no request is under way
IdleContext ==
    /\ dataset_cache = << >>
    /\ image_cache = {}
    /\ tile_cache = {}
    /\ place_group_cache = {}
    /\ lock = [owner |-> NoThread, count |-> 0]
    /\ mlds = << >>
    /\ pc = [t \in Threads |-> "idle"]
    /\ op = [t \in Threads |-> "none"]
    /\ arg = [t \in Threads |-> 0]
    /\ loc = [t \in Threads |-> NoLoc]
    /\ hist = [t \in Threads |-> NoHist]
    /\ ret = NoRet
    /\ returned = << >>
    /\ nsets = 0

\* ServiceContext(config=c), lines 100-121, without a data_store_pool argument
PoolInit ==
    /\ config \in PoolConfigIds
    /\ dataset_configs = NoList
    /\ IdleContext
    /\ call = NoCall
    /\ lru_cache = Unused
    /\ lazy_mld = Unused
    /\ data_store_pool = [pool |-> NoPool, last |-> NoPoolCall, sets |-> 0]
    /\ datasets_listing = Unused
    /\ wcs_handler = Unused

\* what a call in one thread leaves unchanged
PoolFrame ==
    UNCHANGED << dataset_cache, image_cache, tile_cache, place_group_cache, lock,
                 mlds, pc, op, arg, loc, hist, ret, returned, nsets,
                 call, lru_cache, lazy_mld, datasets_listing, wcs_handler >>

\* ctx.config = c, lines 127-150, with no dataset cached
set_config ==
    /\ data_store_pool.sets < MaxPoolSets
    /\ \E c \in PoolConfigIds \ {config} : config' = c
    /\ dataset_configs' = IF Truthy(config) THEN NoList ELSE dataset_configs
    /\ data_store_pool' =
          [pool |-> IF Truthy(config)
                    THEN remove_all_store_configs(data_store_pool.pool)
                    ELSE data_store_pool.pool,
           last |-> NoPoolCall,
           sets |-> data_store_pool.sets + 1]
    /\ PoolFrame

\* ctx.get_data_store_pool()
call_get_data_store_pool ==
    /\ LET p == get_data_store_pool(config, data_store_pool.pool)
       IN data_store_pool' =
             [data_store_pool EXCEPT
                 !.pool = p, !.last = [op |-> "get_data_store_pool", out |-> p]]
    /\ UNCHANGED << config, dataset_configs >>
    /\ PoolFrame

\* ctx.get_dataset_configs(), lines 269-279
call_get_dataset_configs ==
    /\ IF dataset_configs = NoList
       THEN /\ dataset_configs' = config
            /\ data_store_pool' =
                  [data_store_pool EXCEPT
                      !.pool = maybe_assign_store_instance_ids(config, @),
                      !.last = [op |-> "get_dataset_configs", out |-> NoPool]]
       ELSE /\ UNCHANGED dataset_configs
            /\ data_store_pool' =
                  [data_store_pool EXCEPT
                      !.last = [op |-> "get_dataset_configs", out |-> NoPool]]
    /\ UNCHANGED config
    /\ PoolFrame

PoolNext ==
    \/ set_config
    \/ call_get_data_store_pool
    \/ call_get_dataset_configs

PoolSpec == PoolInit /\ [][PoolNext]_vars

\* C20: get_data_store_pool() returns a pool with exactly the store
\* instances declared under 'DataStores' of the installed configuration, and
\* None when it declares none.
C20_PoolOfCurrentConfig ==
    data_store_pool.last.op = "get_data_store_pool" =>
        data_store_pool.last.out =
            (IF DataStores(config) = {} THEN NoPool
             ELSE DataStorePool(DataStores(config)))

\* ============================================== claims C21 and following

\* C21: for z_index in 0..num_levels-1, get_variable_for_z reads level
\* num_levels - 1 - z_index (0 gives the last level, num_levels - 1 gives
\* level 0); for every other z_index it raises the not-found error of the
\* z-index and asks for no level.
C21_LevelOfZIndex ==
    Done("get_variable_for_z") =>
        LET num_levels == Len(call.args[1])
            z_index == call.args[3]
            requested == levels_requested(call.args[1], z_index)
        IN IF z_index \in 0..(num_levels - 1)
           THEN /\ requested = {num_levels - 1 - z_index}
                /\ call.out.kind = "ok" =>
                      call.out.value = << num_levels - 1 - z_index, call.args[2] >>
                /\ call.out.kind = "NotFound" =>
                      /\ call.out.what = "Variable"
                      /\ call.args[2] \notin call.args[1][num_levels - z_index]
                /\ z_index = 0 => requested = {num_levels - 1}
                /\ z_index = num_levels - 1 => requested = {0}
           ELSE /\ call.out = NotFound("z-index", call.args[2])
                /\ requested = {}

\* C21 witness: z_index 0 of a dataset of two levels whose levels hold
\* different variables reads level 1.
C21_Witness ==
    /\ Done("get_variable_for_z")
    /\ call.args[1] = << {"a"}, {"b"} >>
    /\ call.args[2] = "b"
    /\ call.args[3] = 0
    /\ call.out = Ok(<< 1, "b" >>)

\* C22: a GetCoverage request is accepted only if either WIDTH and HEIGHT
\* are given and neither RESX nor RESY, or RESX and RESY are given and
\* neither WIDTH nor HEIGHT; every other request is rejected with ValueError.
C22_OneSizeSpecification ==
    Done("validate_coverage_req") =>
        LET req == call.args[1]
        IN IF call.out.kind = "ok"
           THEN \/ (req.width /\ req.height /\ ~req.resx /\ ~req.resy)
                \/ (req.resx /\ req.resy /\ ~req.width /\ ~req.height)
           ELSE call.out.kind = "ValueError"

\* C23: a call of get_ml_dataset(ds_id) ends with the not-found error or the
\* configuration error of the construction, or returns the cached
\* MultiLevelDataset whose ds_id is the requested one; no KeyError of the
\* read of line 610 escapes.
C23_NoKeyError ==
    LookupReturned =>
        \/ ret.kind \in {"NotFound", "ConfigError"}
        \/ /\ ret.kind = "ok"
           /\ mlds[ret.obj].ds_id = ret.id

\* ============================== the list of dataset configurations (C24)

\* calls of `ctx.config = ctx.config` in one run
MaxResets == 1

\* the identifiers of the 'Datasets' list of the configuration, as configured
ConfiguredDatasets == << "local" >>

\* data_store.get_data_ids() of a store instance, as dataset identifiers
\* f'{store_instance_id}~{store_dataset_id}' (lines 463-465)
StoreDatasets(store) ==
    CASE store = "s1" -> << "s1~ds" >>
      [] store = "s2" -> << "s2~ds" >>
      [] OTHER -> << >>

\* get_dataset_configs_from_stores(), lines 429-478, for the pool that
\* get_data_store_pool() returned (a configuration has at most one store)
get_dataset_configs_from_stores(pool) ==
    IF pool.none \/ pool.stores = {} THEN << >>
    ELSE StoreDatasets(CHOOSE store \in pool.stores : TRUE)

NoListObject == 0

\* ServiceContext(config=c): the lists that exist are the 'Datasets' list of
\* the configuration, if it has that key; _dataset_configs is None
ListingInit ==
    /\ config \in {1, 3}
    /\ dataset_configs = NoList
    /\ IdleContext
    /\ call = NoCall
    /\ lru_cache = Unused
    /\ lazy_mld = Unused
    /\ data_store_pool = Unused
    /\ wcs_handler = Unused
    /\ \E key \in BOOLEAN :
          datasets_listing =
              [key |-> key,
               lists |-> IF key THEN << ConfiguredDatasets >> ELSE << >>,
               dataset_configs |-> NoListObject,
               pool |-> NoPool,
               owner |-> NoThread,
               pc |-> [t \in Threads |-> "idle"],
               resets |-> 0,
               last |-> [t |-> NoThread, list |-> NoListObject]]

ListingStep(new) ==
    /\ datasets_listing' = new
    /\ UNCHANGED << context, call, lru_cache, lazy_mld, data_store_pool, wcs_handler >>

\* get_dataset_configs(), line 270: if self._dataset_configs is None
listing_check(t) ==
    /\ datasets_listing.pc[t] = "idle"
    /\ ListingStep([datasets_listing EXCEPT
                       !.pc[t] = IF datasets_listing.dataset_configs = NoListObject
                                 THEN "lock" ELSE "return",
                       !.last = [t |-> NoThread, list |-> NoListObject]])

\* line 271: with self._lock
listing_lock(t) ==
    /\ datasets_listing.pc[t] = "lock"
    /\ datasets_listing.owner = NoThread
    /\ ListingStep([datasets_listing EXCEPT !.pc[t] = "compute", !.owner = t])

\* lines 272-278: the list is config.get('Datasets', []), the 'Datasets' list
\* itself or a new empty list; += extends that list object by the
\* configurations from the stores; it becomes _dataset_configs; the pool is
\* left as get_data_store_pool and _maybe_assign_store_instance_ids leave it
listing_compute(t) ==
    /\ datasets_listing.pc[t] = "compute"
    /\ LET l == IF datasets_listing.key THEN 1 ELSE Len(datasets_listing.lists) + 1
           before == IF datasets_listing.key THEN datasets_listing.lists
                     ELSE Append(datasets_listing.lists, << >>)
           pool == get_data_store_pool(config, datasets_listing.pool)
       IN ListingStep([datasets_listing EXCEPT
                          !.lists = [before EXCEPT
                                        ![l] = @ \o get_dataset_configs_from_stores(pool)],
                          !.dataset_configs = l,
                          !.pool = maybe_assign_store_instance_ids(config, pool),
                          !.owner = NoThread,
                          !.pc[t] = "return"])

\* line 279: return self._dataset_configs
listing_return(t) ==
    /\ datasets_listing.pc[t] = "return"
    /\ ListingStep([datasets_listing EXCEPT
                       !.pc[t] = "idle",
                       !.last = [t |-> t, list |-> datasets_listing.dataset_configs]])

\* ctx.config = ctx.config, lines 127-150: the configuration stays the same
\* object, the pool is emptied and _dataset_configs is None again
listing_reset ==
    /\ datasets_listing.resets < MaxResets
    /\ Truthy(config)
    /\ datasets_listing.owner = NoThread
    /\ ListingStep([datasets_listing EXCEPT
                       !.dataset_configs = NoListObject,
                       !.pool = remove_all_store_configs(@),
                       !.resets = @ + 1,
                       !.last = [t |-> NoThread, list |-> NoListObject]])

ListingNext ==
    \/ \E t \in Threads :
          \/ listing_check(t)
          \/ listing_lock(t)
          \/ listing_compute(t)
          \/ listing_return(t)
    \/ listing_reset

ListingSpec == ListingInit /\ [][ListingNext]_vars

\* no identifier occurs twice in the list
NoDuplicates(list) ==
    \A i \in 1..Len(list), j \in 1..Len(list) : list[i] = list[j] => i = j

\* C24: under one configuration, every list that get_dataset_configs returns
\* has each dataset identifier at most once, and the 'Datasets' list of the
\* configuration is as it was configured.
C24_ListingIdempotent ==
    /\ datasets_listing.last.list # NoListObject =>
          NoDuplicates(datasets_listing.lists[datasets_listing.last.list])
    /\ datasets_listing.key => datasets_listing.lists[1] = ConfiguredDatasets

\* the steps of a call of thread t that is under way
Progress(t) ==
    \/ get_dataset_configs_check(t)
    \/ get_dataset_configs_compute(t)
    \/ get_dataset_configs_return(t)
    \/ open_ml_dataset(t)
    \/ augment_ml_dataset(t)
    \/ get_dataset_entry_set(t)
    \/ get_dataset_entry_return(t)
    \/ config_setter_close(t)
    \/ config_setter_clear_dataset_cache(t)
    \/ config_setter_clear_image_cache(t)
    \/ config_setter_clear_tile_cache(t)
    \/ config_setter_clear_place_group_cache(t)
    \/ config_setter_reset(t)
    \/ config_setter_assign(t)

\* `with self._lock` of thread t, lines 130, 271 and 608
Locking(t) ==
    \/ get_dataset_configs_lock(t)
    \/ get_dataset_entry_lock(t)
    \/ config_setter_lock(t)

\* threads that call get_ml_dataset, get_dataset_config and the config setter
LockNext ==
    \E t \in Threads :
        \/ get_dataset_config(t)
        \/ get_dataset_entry(t)
        \/ config_setter(t)
        \/ Progress(t)
        \/ Locking(t)

\* every thread that is within a call goes on, and a thread that waits for
\* the lock gets it if it is free again and again
FairSpec ==
    /\ Init
    /\ [][LockNext]_vars
    /\ \A t \in Threads : WF_vars(Progress(t)) /\ SF_vars(Locking(t))

\* C25: every call of get_ml_dataset, get_dataset_config(s),
\* get_dataset_place_groups and of the config setter that a thread has
\* started returns or raises at some time.
C25_EveryCallReturns ==
    \A t \in Threads : (pc[t] # "idle") ~> (pc[t] = "idle")

\* C25 witness: a thread waits for the lock while the other thread holds it
\* twice, having entered get_dataset_configs within _get_dataset_entry.
C25_Witness ==
    \E t \in Threads, u \in Threads :
        /\ t # u
        /\ pc[t] \in {"entry_lock", "cfgs_lock", "set_lock"}
        /\ lock = [owner |-> u, count |-> 2]

\* the base scope of the call that is made
BaseOfCall ==
    IF call.fn = "get_required_dataset_scopes"
    THEN [base |-> << "read", "dataset" >>, pattern |-> << "read", "dataset", "{Dataset}" >>]
    ELSE [base |-> << "read", "variable" >>, pattern |-> << "read", "variable", "{Variable}" >>]

\* C26: the required scopes returned are exactly the scopes of the global
\* and the dataset's RequiredScopes that are the base scope or begin with the
\* base scope and a colon, with the pattern scope replaced by the base scope
\* with the actual identifier or variable name: no scope of another base is
\* returned and no required scope of the base is lost.
C26_RequiredScopes ==
    (Done("get_required_dataset_scopes") \/ Done("get_required_variable_scopes")) =>
        LET union == call.args[1] \cup call.args[2]
            base == BaseOfCall.base
            pattern == BaseOfCall.pattern
            actual == Append(base, call.args[3])
            OfBase(scope) == scope = base \/ (Len(scope) = 3 /\ scope[1] = base[1]
                                                              /\ scope[2] = base[2])
        IN /\ \A scope \in call.out :
                 /\ OfBase(scope)
                 /\ scope # pattern
                 /\ scope \in union \/ (scope = actual /\ pattern \in union)
           /\ \A scope \in union :
                 (OfBase(scope) /\ scope # pattern) => scope \in call.out
           /\ pattern \in union => actual \in call.out

\* C26 witness: the global scopes have the pattern scope and a scope of
\* another base, the dataset has the plain base scope: the result is the base
\* scope and the scope of the dataset's identifier.
C26_Witness ==
    /\ Done("get_required_dataset_scopes")
    /\ call.args[1] = {<< "read", "dataset", "{Dataset}" >>, << "read", "variable" >>}
    /\ call.args[2] = {<< "read", "dataset" >>}
    /\ call.out = {<< "read", "dataset" >>, << "read", "dataset", "ds1" >>}

\* the call of get_time_series_dataset that has returned: the configuration
\* of ds_id, the dataset its 'TimeSeriesDataset' names, what is known of both
TsCall ==
    LET l == call.args[1]
        i == find_config(l, call.args[2])
        ts_name == IF i = 0 \/ l[i].TimeSeriesDataset = "none" THEN call.args[2]
                   ELSE l[i].TimeSeriesDataset
        j == find_config(l, ts_name)
        Has(k) == call.args[3] = "None" \/ call.args[3] \in l[k].names
    IN [known |-> i # 0,
        own_opens |-> i # 0 /\ l[i].FileSystem = "memory",
        own_has |-> i # 0 /\ Has(i),
        own |-> IF i # 0 THEN [ds_id |-> call.args[2], names |-> l[i].names] ELSE << >>,
        ts_name |-> ts_name,
        ts_known |-> i # 0 /\ j # 0,
        ts_opens |-> i # 0 /\ j # 0 /\ l[j].FileSystem = "memory",
        ts_has |-> i # 0 /\ j # 0 /\ Has(j),
        ts |-> IF i # 0 /\ j # 0 THEN [ds_id |-> ts_name, names |-> l[j].names] ELSE << >>]

\* the fall back: the dataset ds_id itself, the configuration error if it
\* does not open, the not-found error if it lacks var_name
FallsBack ==
    IF ~TsCall.own_opens THEN call.out = ConfigError(call.args[2])
    ELSE IF TsCall.own_has THEN call.out = Ok(TsCall.own)
    ELSE call.out = NotFound("Variable", call.args[3])

\* C27 as stated: get_time_series_dataset returns the dataset named by
\* 'TimeSeriesDataset' when that dataset exists and contains var_name, and
\* otherwise falls back to the dataset ds_id itself; the not-found error is
\* raised only if ds_id is unknown or its own dataset lacks var_name.
C27_FallsBackOtherwise ==
    Done("get_time_series_dataset") =>
        IF ~TsCall.known THEN call.out = NotFound("Dataset", call.args[2])
        ELSE IF TsCall.ts_opens /\ TsCall.ts_has THEN call.out = Ok(TsCall.ts)
        ELSE FallsBack

\* C27, amended: as stated, except that a dataset named by
\* 'TimeSeriesDataset' that is configured but fails to open makes the call
\* raise that configuration error instead of falling back.
C27_FallsBackOnNotFound ==
    Done("get_time_series_dataset") =>
        IF ~TsCall.known THEN call.out = NotFound("Dataset", call.args[2])
        ELSE IF TsCall.ts_known /\ ~TsCall.ts_opens
             THEN call.out = ConfigError(TsCall.ts_name)
        ELSE IF TsCall.ts_opens /\ TsCall.ts_has THEN call.out = Ok(TsCall.ts)
        ELSE FallsBack

\* C27 witness: the time series dataset of "d" lacks the variable that "d"
\* itself has, and "d" is returned.
C27_Witness ==
    /\ Done("get_time_series_dataset")
    /\ call.args[2] = "d"
    /\ call.args[3] = "a"
    /\ TsCall.ts_name = "ts"
    /\ TsCall.ts_opens
    /\ ~TsCall.ts_has
    /\ call.out = Ok([ds_id |-> "d", names |-> {"a"}])

\* ------------------------------------------------ the WCS GetCoverage handler
\* WcsKvpHandler.get of ows/wcs/routes.py, one request after the other; the
\* variable wcs_handler holds the handler's position, its locals and the
\* temporary files of the file system.

\* requests that are handled
MaxRequests == 2

\* chunks of chunk_size that the written file has at most
MaxChunks == 2

\* the local temp_file_name is not bound
NoFileName == 0

FileFormats == {"netcdf4", "geotiff", "png"}

WcsInit ==
    /\ config = 1
    /\ dataset_configs = NoList
    /\ IdleContext
    /\ call = NoCall
    /\ lru_cache = Unused
    /\ lazy_mld = Unused
    /\ data_store_pool = Unused
    /\ datasets_listing = Unused
    /\ wcs_handler = [pc |-> "idle",
                      requests |-> 0,
                      file_format |-> "none",
                      chunks |-> 0,
                      written |-> NoFileName,
                      temp_file_name |-> NoFileName,
                      files |-> {},
                      names |-> 0,
                      error |-> "none"]

WcsStep(new) ==
    /\ wcs_handler' = new
    /\ UNCHANGED << context, call, lru_cache, lazy_mld, data_store_pool, datasets_listing >>

\* lines 110-155: a GetCoverage request of some format, whose coverage will
\* take some number of chunks; the handler enters the try block
wcs_get(file_format, chunks) ==
    /\ wcs_handler.pc = "idle"
    /\ wcs_handler.requests < MaxRequests
    /\ WcsStep([wcs_handler EXCEPT
                   !.pc = "try",
                   !.requests = @ + 1,
                   !.file_format = file_format,
                   !.chunks = chunks,
                   !.written = NoFileName,
                   !.temp_file_name = NoFileName,
                   !.error = "none"])

\* line 166: raise ValueError('Unsupported format: ' + file_format)
wcs_unsupported_format ==
    /\ wcs_handler.pc = "try"
    /\ wcs_handler.file_format \notin {"netcdf4", "geotiff"}
    /\ WcsStep([wcs_handler EXCEPT !.pc = "finally", !.error = "ValueError"])

\* lines 191 and 198: tempfile.mkstemp creates a file of a new name
wcs_mkstemp ==
    /\ wcs_handler.pc = "try"
    /\ wcs_handler.file_format \in {"netcdf4", "geotiff"}
    /\ WcsStep([wcs_handler EXCEPT
                   !.pc = "write",
                   !.names = @ + 1,
                   !.written = wcs_handler.names + 1,
                   !.files = @ \cup {wcs_handler.names + 1}])

\* lines 192-194 and 199-201, then lines 158-165: the cube is written, the
\* name is returned and bound to temp_file_name
wcs_write ==
    /\ wcs_handler.pc = "write"
    /\ WcsStep([wcs_handler EXCEPT
                   !.pc = "stream",
                   !.temp_file_name = wcs_handler.written])

\* lines 192 and 199: to_raster or to_netcdf raises; the exception leaves
\* _write_geotiff or _write_netcdf, and the assignment of lines 158-165 is
\* not made
wcs_write_fails ==
    /\ wcs_handler.pc = "write"
    /\ WcsStep([wcs_handler EXCEPT !.pc = "finally", !.error = "WriteError"])

\* lines 172-178: a chunk is read and written to the response
wcs_stream_chunk ==
    /\ wcs_handler.pc = "stream"
    /\ wcs_handler.chunks > 0
    /\ WcsStep([wcs_handler EXCEPT !.chunks = @ - 1])

\* lines 179-180: the client has gone, StreamClosedError, break
wcs_stream_closed ==
    /\ wcs_handler.pc = "stream"
    /\ wcs_handler.chunks > 0
    /\ WcsStep([wcs_handler EXCEPT !.pc = "finally"])

\* lines 175-176: no chunk is left, break
wcs_stream_end ==
    /\ wcs_handler.pc = "stream"
    /\ wcs_handler.chunks = 0
    /\ WcsStep([wcs_handler EXCEPT !.pc = "finally"])

\* lines 181-184: the finally block removes the file that temp_file_name
\* names if that local is bound; then the response is finished, or the
\* exception leaves the handler
wcs_finally ==
    /\ wcs_handler.pc = "finally"
    /\ WcsStep([wcs_handler EXCEPT
                   !.pc = "idle",
                   !.files = IF wcs_handler.temp_file_name # NoFileName
                             THEN @ \ {wcs_handler.temp_file_name}
                             ELSE @])

WcsNext ==
    \/ \E file_format \in FileFormats, chunks \in 0..MaxChunks :
          wcs_get(file_format, chunks)
    \/ wcs_unsupported_format
    \/ wcs_mkstemp
    \/ wcs_write
    \/ wcs_write_fails
    \/ wcs_stream_chunk
    \/ wcs_stream_closed
    \/ wcs_stream_end
    \/ wcs_finally

WcsSpec == WcsInit /\ [][WcsNext]_vars

\* C28: when the GetCoverage handler has finished, on whatever path, every
\* temporary file that it created has been removed.
C28_TempFilesRemoved ==
    wcs_handler.pc = "idle" => wcs_handler.files = {}

\* C29: _is_point_in_dataset_bbox((x, y), d) is true iff d has a bbox with
\* y_min <= y <= y_max and x inside the longitude interval (x_min <= x <=
\* x_max when x_min < x_max; x_min <= x <= 180 or -180 <= x <= x_max when
\* x_min > x_max), and a point outside the box's longitude extent is never
\* accepted.
C29_PointInBbox ==
    Done("is_point_in_dataset_bbox") =>
        LET x == call.args[1][1]
            y == call.args[1][2]
            bbox == call.args[2].bbox
            accepted == call.out = Ok(TRUE)
        IN IF bbox = << >> \/ ~(bbox[2] <= y /\ y <= bbox[4]) THEN ~accepted
           ELSE /\ bbox[1] < bbox[3] =>
                     (accepted <=> (bbox[1] <= x /\ x <= bbox[3]))
                /\ bbox[1] > bbox[3] =>
                     (accepted <=> \/ bbox[1] <= x /\ x <= 180
                                   \/ -180 <= x /\ x <= bbox[3])
                /\ bbox[1] = bbox[3] => (accepted => x = bbox[1])

\* C30: normalize_prefix returns, for every input string, the empty string
\* or a string that starts with '/', does not end with '/' and contains no
\* '//'; and normalizing the result again changes nothing.
C30_NormalizedPrefix ==
    Done("normalize_prefix") =>
        LET p == call.out.value
        IN /\ \/ p = << >>
              \/ /\ p[1] = "/"
                 /\ p[Len(p)] # "/"
                 /\ \A i \in 1..(Len(p) - 1) : ~(p[i] = "/" /\ p[i + 1] = "/")
           /\ normalize_prefix(p) = p

====
